---- MODULE Spec2Model ----
(***************************************************************************)
(* A model of the Modbus master in src/instrument.py: the checksum engine, *)
(* the frame codec, the payload codec and the Instrument session with its  *)
(* shared serial port.                                                     *)
(*                                                                         *)
(* A byte string is a sequence of integers 0..255 (Python str, latin1).    *)
(* A function that can raise returns a result record: Ok(v) carries the    *)
(* returned value, Err(exc, msg) the exception class and the message       *)
(* template of the raise statement that was reached.                       *)
(***************************************************************************)
EXTENDS Integers, Sequences, FiniteSets, TLC

VARIABLES
    SERIALPORTS,        \* _SERIALPORTS: port -> connection id, 0 when absent
    conns,              \* the serial.Serial objects created so far
    LATEST_READ_TIMES,  \* _LATEST_READ_TIMES: port -> time, -1 when absent
    now,                \* time.time(), in ticks
    inst,               \* the Instrument objects (NoInst before construction)
    pc,                 \* per instrument: position inside the running call
    call,               \* per instrument: the public call being executed
    wire,               \* per instrument: message, read size, answer
    result,             \* per instrument: outcome of the last call
    io,                 \* per instrument: transport use during the call
    ncalls,             \* number of public calls started (bounded)
    codec               \* scratch state of the pure-function specifications

vars == <<SERIALPORTS, conns, LATEST_READ_TIMES, now, inst, pc, call, wire,
          result, io, ncalls, codec>>

sessionVars == <<SERIALPORTS, conns, LATEST_READ_TIMES, now, inst, pc, call,
                 wire, result, io, ncalls>>

-----------------------------------------------------------------------------
(* Bounds of the model *)

MaxPayloadLen == 2
MaxCalls == 2
MaxInstruments == 2

-----------------------------------------------------------------------------
(* Program constants *)

_NUMBER_OF_BYTES_PER_REGISTER == 2
BAUDRATE == 9600
FUNCTIONCODE_MIN == 1
FUNCTIONCODE_MAX == 127
SLAVEADDRESS_MIN == 0
SLAVEADDRESS_MAX == 247
REGISTERADDRESS_MIN == 0
REGISTERADDRESS_MAX == 65535
POLY == 40961
MINIMAL_RESPONSE_LENGTH_RTU == 4
MINIMAL_RESPONSE_LENGTH_ASCII == 9
BITNUMBER_FUNCTIONCODE_ERRORINDICATION == 7
DEFAULT_NUMBER_OF_BYTES_TO_READ == 1000
MAX_NUMBER_OF_REGISTERS == 255
CLOSE_PORT_AFTER_EACH_CALL == TRUE

MODE_RTU == "rtu"
MODE_ASCII == "ascii"
_ASCII_HEADER == <<58>>
_ASCII_FOOTER == <<13, 10>>

-----------------------------------------------------------------------------
(* Results and Python sequence helpers *)

Ok(v) == [ok |-> TRUE, val |-> v, exc |-> "", msg |-> ""]
Err(exc, msg) == [ok |-> FALSE, val |-> <<>>, exc |-> exc, msg |-> msg]

Min(a, b) == IF a < b THEN a ELSE b
Max(a, b) == IF a > b THEN a ELSE b

\* s[a:b] of Python for 0 <= a, with b clamped to len(s)
Slice(s, a, b) == SubSeq(s, a + 1, Min(b, Len(s)))

\* s[-n:] of Python for n >= 1
LastN(s, n) == SubSeq(s, Max(Len(s) - n, 0) + 1, Len(s))

RECURSIVE Pow(_, _)
Pow(b, e) == IF e = 0 THEN 1 ELSE b * Pow(b, e - 1)

\* int(x) of Python on the quotient a / b, b > 0: truncation towards zero
TruncDiv(a, b) == IF a >= 0 THEN a \div b ELSE -((-a) \div b)

-----------------------------------------------------------------------------
(* Bit manipulation *)

RECURSIVE _XOR(_, _)
_XOR(integer1, integer2) ==
    IF integer1 = 0 THEN integer2
    ELSE IF integer2 = 0 THEN integer1
    ELSE ((integer1 + integer2) % 2) + 2 * _XOR(integer1 \div 2, integer2 \div 2)

\* a variant of _setBitOn that leaves the bit as it is
SetNoBit(x, bitNum) == x

_setBitOn(x, bitNum) ==
    IF (x \div Pow(2, bitNum)) % 2 = 1 THEN x ELSE x + Pow(2, bitNum)

_rightshift(inputInteger) == <<inputInteger \div 2, inputInteger % 2>>

-----------------------------------------------------------------------------
(* Error checking functions.  A limit is <<>> for None and <<m>> for m. *)

None == <<>>
Lim(m) == <<m>>

_checkNumerical(inputvalue, minvalue, maxvalue, description) ==
    IF minvalue # None /\ maxvalue # None /\ maxvalue[1] < minvalue[1]
    THEN Err("ValueError", "The maxvalue must not be smaller than minvalue")
    ELSE IF minvalue # None /\ inputvalue < minvalue[1]
    THEN Err("ValueError", description \o " is too small")
    ELSE IF maxvalue # None /\ inputvalue > maxvalue[1]
    THEN Err("ValueError", description \o " is too large")
    ELSE Ok(<<>>)

_checkInt(inputvalue, minvalue, maxvalue, description) ==
    _checkNumerical(inputvalue, minvalue, maxvalue, description)

_checkString(inputstring, description, minlength, maxlength) ==
    IF Len(inputstring) < minlength
    THEN Err("ValueError", description \o " is too short")
    ELSE IF maxlength # None /\ maxlength[1] < 0
    THEN Err("ValueError", "The maxlength must be positive")
    ELSE IF maxlength # None /\ maxlength[1] < minlength
    THEN Err("ValueError", "The maxlength must not be smaller than minlength")
    ELSE IF maxlength # None /\ Len(inputstring) > maxlength[1]
    THEN Err("ValueError", description \o " is too long")
    ELSE Ok(<<>>)

_checkMode(mode) ==
    IF mode \notin {MODE_RTU, MODE_ASCII}
    THEN Err("ValueError", "Unreconized Modbus mode given")
    ELSE Ok(<<>>)

\* a variant of _checkFunctioncode that checks the range 1..127 only
CheckFunctioncodeRangeOnly(functioncode, listOfAllowedValues) ==
    _checkInt(functioncode, Lim(FUNCTIONCODE_MIN), Lim(FUNCTIONCODE_MAX),
              "functioncode")

\* listOfAllowedValues: <<>> for None (bypass), else <<set of codes>>
_checkFunctioncode(functioncode, listOfAllowedValues) ==
    LET range == _checkInt(functioncode, Lim(FUNCTIONCODE_MIN),
                           Lim(FUNCTIONCODE_MAX), "functioncode")
    IN  IF ~range.ok THEN range
        ELSE IF listOfAllowedValues = None THEN Ok(<<>>)
        ELSE IF functioncode \notin listOfAllowedValues[1]
        THEN Err("ValueError", "Wrong function code")
        ELSE Ok(<<>>)

_checkSubordinateaddress(subordinateaddress) ==
    _checkInt(subordinateaddress, Lim(SLAVEADDRESS_MIN), Lim(SLAVEADDRESS_MAX),
              "subordinateaddress")

_checkRegisteraddress(registeraddress) ==
    _checkInt(registeraddress, Lim(REGISTERADDRESS_MIN),
              Lim(REGISTERADDRESS_MAX), "registeraddress")

\* the first failing check of a sequence of independent checks
RECURSIVE FirstErr(_)
FirstErr(checks) ==
    IF checks = <<>> THEN Ok(<<>>)
    ELSE IF ~Head(checks).ok THEN Head(checks)
    ELSE FirstErr(Tail(checks))

-----------------------------------------------------------------------------
(* Typed Python values: ty is "int", "float", "str", "list" or "None".    *)
(* A number is (hi * 65536 + num) * 10^-dec: hi is 0 except for the wide   *)
(* integers of the 32-bit operations, which do not fit a machine integer   *)
(* of the checker.  A str or list keeps its elements in items.             *)

V(ty, num, dec, items) ==
    [ty |-> ty, hi |-> 0, num |-> num, dec |-> dec, items |-> items]
IntV(n) == V("int", n, 0, <<>>)
WideV(hi, lo) == [ty |-> "int", hi |-> hi, num |-> lo, dec |-> 0, items |-> <<>>]

\* a wide integer <<hi, lo>> is hi * 65536 + lo with lo in 0..65535
Wide(value) == <<value.hi + (value.num \div 65536), value.num % 65536>>
WideLess(a, b) == a[1] < b[1] \/ (a[1] = b[1] /\ a[2] < b[2])
MAX_VALUE_LONG == <<65535, 65535>>   \* 4294967295
MIN_VALUE_LONG == <<-32768, 0>>      \* -2147483648
FloatV(num, dec) == V("float", num, dec, <<>>)
StrV(chars) == V("str", 0, 0, chars)
ListV(items) == V("list", 0, 0, items)
NoneV == V("None", 0, 0, <<>>)

_checkNumericalV(value, description) ==
    IF value.ty \notin {"int", "float"}
    THEN Err("TypeError", description \o " must be numerical")
    ELSE Ok(<<>>)

_checkIntV(value, minvalue, maxvalue, description) ==
    IF value.ty # "int"
    THEN Err("TypeError", description \o " must be an integer")
    ELSE _checkNumerical(value.num, minvalue, maxvalue, description)

\* _checkInt on a wide integer, with wide limits
_checkIntWide(value, minvalue, maxvalue, description) ==
    IF value.ty # "int"
    THEN Err("TypeError", description \o " must be an integer")
    ELSE IF WideLess(Wide(value), minvalue)
    THEN Err("ValueError", description \o " is too small")
    ELSE IF WideLess(maxvalue, Wide(value))
    THEN Err("ValueError", description \o " is too large")
    ELSE Ok(<<>>)

_checkStringV(value, description, minlength, maxlength) ==
    IF value.ty # "str"
    THEN Err("TypeError", description \o " should be a string")
    ELSE _checkString(value.items, description, minlength, maxlength)

-----------------------------------------------------------------------------
(* String and num conversions *)

\* a variant of _numToOneByteString that keeps the low byte of a number that
\* does not fit
OneByteWrapped(inputvalue) == Ok(<<inputvalue % 256>>)


_numToOneByteString(inputvalue) ==
    LET c == _checkInt(inputvalue, Lim(0), Lim(255), "inputvalue")
    IN  IF ~c.ok THEN c ELSE Ok(<<inputvalue>>)

\* struct.pack wrapped by _pack: formats 'H', 'h', 'L', 'l', big-endian
\* unless LsbFirst; a value outside the format's range raises ValueError
PackRangeMin(signed, nbytes) == IF signed THEN -(Pow(256, nbytes) \div 2) ELSE 0
PackRangeMax(signed, nbytes) ==
    IF signed THEN (Pow(256, nbytes) \div 2) - 1 ELSE Pow(256, nbytes) - 1

RECURSIVE BigEndian(_, _)
BigEndian(n, nbytes) ==
    IF nbytes = 0 THEN <<>>
    ELSE Append(BigEndian(n \div 256, nbytes - 1), n % 256)

RECURSIVE Reverse(_)
Reverse(s) == IF s = <<>> THEN <<>> ELSE Append(Reverse(Tail(s)), Head(s))

\* a variant of _pack that wraps a value around instead of refusing it
PackWrapped(signed, nbytes, LsbFirst, value) ==
    LET be == BigEndian(value % Pow(256, nbytes), nbytes)
    IN  Ok(IF LsbFirst THEN Reverse(be) ELSE be)


_pack(signed, nbytes, LsbFirst, value) ==
    IF value < PackRangeMin(signed, nbytes) \/ value > PackRangeMax(signed, nbytes)
    THEN Err("ValueError", "The value to send is probably out of range")
    ELSE LET unsignedvalue == IF value < 0 THEN value + Pow(256, nbytes) ELSE value
             be == BigEndian(unsignedvalue, nbytes)
         IN  Ok(IF LsbFirst THEN Reverse(be) ELSE be)

\* _pack with the formats 'l' and 'L' (4 bytes, big-endian) on a wide integer
_packLong(signed, value) ==
    LET w == Wide(value)
    IN  IF (signed /\ (w[1] < -32768 \/ w[1] > 32767))
           \/ (~signed /\ (w[1] < 0 \/ w[1] > 65535))
        THEN Err("ValueError", "The value to send is probably out of range")
        ELSE Ok(BigEndian(w[1] % 65536, 2) \o BigEndian(w[2], 2))

RECURSIVE FromBigEndian(_)
FromBigEndian(bytes) ==
    IF bytes = <<>> THEN 0
    ELSE 256 * FromBigEndian(SubSeq(bytes, 1, Len(bytes) - 1)) + bytes[Len(bytes)]

\* struct.unpack wrapped by _unpack, for a byte string of the format's size
_unpack(signed, packed) ==
    LET u == FromBigEndian(packed)
    IN  IF signed /\ u >= Pow(256, Len(packed)) \div 2
        THEN u - Pow(256, Len(packed)) ELSE u

\* _unpack with the formats 'l' and 'L': the wide integer <<hi, lo>>
_unpackLong(signed, packed) ==
    <<_unpack(signed, SubSeq(packed, 1, 2)), _unpack(FALSE, SubSeq(packed, 3, 4))>>

\* x * 10^k, left as it is once it is beyond every 16-bit range (struct.pack
\* refuses all such numbers alike)
RECURSIVE Times10(_, _)
Times10(x, k) ==
    IF k = 0 \/ x > 65535 \/ x < -65535 THEN x ELSE Times10(x * 10, k - 1)

\* the binary exponent of an integer n >= 1
RECURSIVE Log2Floor(_)
Log2Floor(n) == IF n <= 1 THEN 0 ELSE 1 + Log2Floor(n \div 2)

\* the decimal literal num / 10^dec without its trailing zeros
RECURSIVE Normalized(_, _)
Normalized(num, dec) ==
    IF dec > 0 /\ num % 10 = 0 THEN Normalized(num \div 10, dec - 1)
    ELSE <<num, dec>>

\* the binary exponent g of num / D (num > 0): 2^g <= num / D < 2^(g+1)
RECURSIVE ExponentUp(_, _, _)
ExponentUp(num, D, g) ==
    IF 2 * D * Pow(2, g) <= num THEN ExponentUp(num, D, g + 1) ELSE g
RECURSIVE ExponentDown(_, _, _)
ExponentDown(num, D, g) ==
    IF num * Pow(2, g) < D THEN ExponentDown(num, D, g + 1) ELSE -g
BinaryExponent(num, D) ==
    IF num >= D THEN ExponentUp(num, D, 0) ELSE ExponentDown(num, D, 0)

\* (r * 2^s) % D
RECURSIVE DoubleMod(_, _, _)
DoubleMod(r, s, D) ==
    IF s = 0 \/ r = 0 THEN r ELSE DoubleMod((2 * r) % D, s - 1, D)

\* float(value) * multiplier in binary64, for the literal num / 10^dec
\* (num > 0, dec > 0, no trailing zero) and the multiplier 10^(dec + j) with
\* the exact product N <= 65536: whether the float product is below N.
\* float(value) is m * 2^-s with m the nearest integer to num * 2^s / 10^dec
\* (53 bits); it is below the literal by r * 2^-s / 10^dec when the remainder
\* r of that division is under half of 10^dec; the product is then rounded to
\* a float below N when it is under the middle of N and the float before N.
FloatProductBelow(num, dec, j, N) ==
    LET D == Pow(10, dec)
        s == 52 - BinaryExponent(num, D)
        r == DoubleMod(num % D, s, D)
        e == Log2Floor(N)
        t == e - 53 + s - (IF N = Pow(2, e) THEN 1 ELSE 0)
    IN  /\ r # 0
        /\ 2 * r < D
        /\ (t - j < 0 \/ r * Pow(5, j) > Pow(2, t - j))

\* int(float(value) * multiplier) for a literal num / 10^dec, num >= 0
ScaledMagnitude(num, dec, numberOfDecimals) ==
    LET j == numberOfDecimals - dec
        N == IF j > 4 \/ num > 65536 THEN Times10(num, j)
             ELSE num * Pow(10, j)
    IN  IF j < 0 THEN num \div Pow(10, -j)
        ELSE IF dec = 0 \/ N = 0 \/ N > 65536 THEN N
        ELSE IF FloatProductBelow(num, dec, j, N) THEN N - 1
        ELSE N

\* int(float(value) * multiplier) with multiplier = 10 ** numberOfDecimals:
\* the product is a binary64 float, and int() drops its fraction
ScaledInteger(value, numberOfDecimals) ==
    LET n == Normalized(value.num, value.dec)
    IN  IF n[1] < 0 THEN -ScaledMagnitude(-n[1], n[2], numberOfDecimals)
        ELSE ScaledMagnitude(n[1], n[2], numberOfDecimals)

\* value is a typed Python value
_numToTwoByteString(value, numberOfDecimals, LsbFirst, signed) ==
    LET c == FirstErr(<<_checkNumericalV(value, "inputvalue"),
                        _checkInt(numberOfDecimals, Lim(0), None,
                                  "number of decimals")>>)
    IN  IF ~c.ok THEN c
        ELSE _pack(signed, 2, LsbFirst, ScaledInteger(value, numberOfDecimals))

\* the scaled result is kept as the pair <<fullregister, numberOfDecimals>>:
\* the number fullregister / 10^numberOfDecimals
_twoByteStringToNum(bytestring, numberOfDecimals, signed) ==
    LET c == FirstErr(<<_checkString(bytestring, "bytestring", 2, Lim(2)),
                        _checkInt(numberOfDecimals, Lim(0), None,
                                  "number of decimals")>>)
    IN  IF ~c.ok THEN c
        ELSE Ok(<<_unpack(signed, bytestring), numberOfDecimals>>)

-----------------------------------------------------------------------------
(* Payload type codec *)

_longToBytestring(value, signed, numberOfRegisters) ==
    LET c == FirstErr(<<IF value.ty # "int"
                        THEN Err("TypeError", "inputvalue must be an integer")
                        ELSE Ok(<<>>),
                        _checkInt(numberOfRegisters, Lim(2), Lim(2),
                                  "number of registers")>>)
    IN  IF ~c.ok THEN c ELSE _packLong(signed, value)

_bytestringToLong(bytestring, signed, numberOfRegisters) ==
    LET c == FirstErr(<<_checkString(bytestring, "byte string", 4, Lim(4)),
                        _checkInt(numberOfRegisters, Lim(2), Lim(2),
                                  "number of registers")>>)
    IN  IF ~c.ok THEN c ELSE Ok(_unpackLong(signed, bytestring))

\* IEEE-754 of a number n / 2^j with 0 < |n| < 2^24, or of 0: the sign, the
\* unbiased exponent e and the 23 leading fraction bits m23 (all that such a
\* number has).  The inputs are integers and halves (dec = 1, num % 5 = 0).
IeeeFields(value) ==
    LET n == IF value.dec = 0 THEN value.num ELSE value.num \div 5
        j == value.dec
        a == IF n < 0 THEN -n ELSE n
        e == Log2Floor(a)
    IN  [sign |-> IF n < 0 THEN 1 ELSE 0,
         zero |-> (n = 0),
         e |-> e - j,
         m23 |-> IF n = 0 THEN 0 ELSE a * Pow(2, 23 - e) - Pow(2, 23)]

\* struct.pack('>f', value)
PackFloat(value) ==
    LET f == IeeeFields(value)
        expfield == IF f.zero THEN 0 ELSE f.e + 127
    IN  <<f.sign * 128 + expfield \div 2,
          (expfield % 2) * 128 + f.m23 \div 65536,
          (f.m23 \div 256) % 256,
          f.m23 % 256>>

\* struct.pack('>d', value)
PackDouble(value) ==
    LET f == IeeeFields(value)
        expfield == IF f.zero THEN 0 ELSE f.e + 1023
    IN  <<f.sign * 128 + expfield \div 16,
          (expfield % 16) * 16 + f.m23 \div 524288,
          (f.m23 \div 2048) % 256,
          (f.m23 \div 8) % 256,
          (f.m23 % 8) * 32, 0, 0, 0>>

_floatToBytestring(value, numberOfRegisters) ==
    LET c == FirstErr(<<_checkNumericalV(value, "inputvalue"),
                        _checkInt(numberOfRegisters, Lim(2), Lim(4),
                                  "number of registers")>>)
    IN  IF ~c.ok THEN c
        ELSE IF numberOfRegisters = 2 THEN Ok(PackFloat(value))
        ELSE IF numberOfRegisters = 4 THEN Ok(PackDouble(value))
        ELSE Err("ValueError", "Wrong number of registers!")

\* the float read is kept as its IEEE fields: sign, exponent field and the
\* fraction bits in 16-bit groups
UnpackFloat(b) ==
    <<b[1] \div 128, (b[1] % 128) * 2 + b[2] \div 128,
      b[2] % 128, b[3] * 256 + b[4]>>

UnpackDouble(b) ==
    <<b[1] \div 128, (b[1] % 128) * 16 + b[2] \div 16,
      b[2] % 16, b[3] * 256 + b[4], b[5] * 256 + b[6], b[7] * 256 + b[8]>>

_bytestringToFloat(bytestring, numberOfRegisters) ==
    LET c == FirstErr(<<_checkString(bytestring, "bytestring", 4, Lim(8)),
                        _checkInt(numberOfRegisters, Lim(2), Lim(4),
                                  "number of registers")>>)
        numberOfBytes == _NUMBER_OF_BYTES_PER_REGISTER * numberOfRegisters
    IN  IF ~c.ok THEN c
        ELSE IF numberOfRegisters \notin {2, 4}
        THEN Err("ValueError", "Wrong number of registers!")
        ELSE IF Len(bytestring) # numberOfBytes
        THEN Err("ValueError", "Wrong length of the byte string!")
        ELSE IF numberOfRegisters = 2 THEN Ok(UnpackFloat(bytestring))
        ELSE Ok(UnpackDouble(bytestring))

\* a variant of Ljust that pads nothing
NoPadding(inputstring, width) == inputstring


\* inputstring.ljust(maxCharacters): pad with spaces
Ljust(inputstring, width) ==
    inputstring \o [i \in 1..(width - Len(inputstring)) |-> 32]

_textstringToBytestring(inputstring, numberOfRegisters) ==
    LET maxCharacters == _NUMBER_OF_BYTES_PER_REGISTER * numberOfRegisters
        c1 == _checkInt(numberOfRegisters, Lim(1), None, "number of registers")
    IN  IF ~c1.ok THEN c1
        ELSE LET c2 == _checkStringV(inputstring, "input string", 1,
                                     Lim(maxCharacters))
             IN  IF ~c2.ok THEN c2
                 ELSE Ok(Ljust(inputstring.items, maxCharacters))

_bytestringToTextstring(bytestring, numberOfRegisters) ==
    LET maxCharacters == _NUMBER_OF_BYTES_PER_REGISTER * numberOfRegisters
        c1 == _checkInt(numberOfRegisters, Lim(1), None, "number of registers")
    IN  IF ~c1.ok THEN c1
        ELSE LET c2 == _checkString(bytestring, "byte string", maxCharacters,
                                    Lim(maxCharacters))
             IN  IF ~c2.ok THEN c2 ELSE Ok(bytestring)

RECURSIVE ConcatRegisters(_)
ConcatRegisters(items) ==
    IF items = <<>> THEN <<>>
    ELSE _numToTwoByteString(IntV(Head(items)), 0, FALSE, FALSE).val
         \o ConcatRegisters(Tail(items))

_valuelistToBytestring(valuelist, numberOfRegisters) ==
    LET c1 == _checkInt(numberOfRegisters, Lim(1), None, "number of registers")
    IN  IF ~c1.ok THEN c1
        ELSE IF valuelist.ty # "list"
        THEN Err("TypeError", "The valuelist parameter must be a list")
        ELSE LET items == valuelist.items
                 c2 == FirstErr([i \in 1..Len(items) |->
                           _checkInt(items[i], Lim(0), Lim(65535),
                                     "elements in the input value list")])
                 c3 == _checkInt(Len(items), Lim(numberOfRegisters),
                                 Lim(numberOfRegisters), "length of the list")
             IN  IF ~c2.ok THEN c2
                 ELSE IF ~c3.ok THEN c3
                 ELSE Ok(ConcatRegisters(items))

_bytestringToValuelist(bytestring, numberOfRegisters) ==
    LET numberOfBytes == _NUMBER_OF_BYTES_PER_REGISTER * numberOfRegisters
        c1 == _checkInt(numberOfRegisters, Lim(1), None, "number of registers")
    IN  IF ~c1.ok THEN c1
        ELSE LET c2 == _checkString(bytestring, "byte string", numberOfBytes,
                                    Lim(numberOfBytes))
             IN  IF ~c2.ok THEN c2
                 ELSE Ok([i \in 1..numberOfRegisters |->
                            _unpack(FALSE, SubSeq(bytestring, 2 * i - 1, 2 * i))])

\* a variant of _bitResponseToValue that takes every byte for the value
BitResponseAnyByte(bytestring) ==
    LET c == _checkString(bytestring, "bytestring", 1, Lim(1))
    IN  IF ~c.ok THEN c ELSE Ok(bytestring)


_bitResponseToValue(bytestring) ==
    LET c == _checkString(bytestring, "bytestring", 1, Lim(1))
    IN  IF ~c.ok THEN c
        ELSE IF bytestring = <<1>> THEN Ok(<<1>>)
        ELSE IF bytestring = <<0>> THEN Ok(<<0>>)
        ELSE Err("ValueError", "Could not convert bit response to a value")

\* a variant of _createBitpattern that gives the one data byte of function
\* code 15 for function code 5 too
BitpatternAsByte(functioncode, value) ==
    Ok(IF value.num = 0 THEN <<0>> ELSE <<1>>)


_createBitpattern(functioncode, value) ==
    LET c == FirstErr(<<_checkFunctioncode(functioncode, <<{5, 15}>>),
                        _checkIntV(value, Lim(0), Lim(1), "inputvalue")>>)
    IN  IF ~c.ok THEN c
        ELSE IF functioncode = 5
        THEN Ok(IF value.num = 0 THEN <<0, 0>> ELSE <<255, 0>>)
        ELSE Ok(IF value.num = 0 THEN <<0>> ELSE <<1>>)

-----------------------------------------------------------------------------
(* Checks of the response payload *)

\* a variant of _checkResponseByteCount that accepts every byte count
AcceptByteCount(payload) == Ok(<<>>)

\* a variant of _checkResponseByteCount that compares the low byte of the
\* number of data bytes
ByteCountLowByte(payload) ==
    LET c == _checkString(payload, "payload", 1, None)
    IN  IF ~c.ok THEN c
        ELSE IF payload[1] # (Len(payload) - 1) % 256
        THEN Err("ValueError", "Wrong given number of bytes in the response")
        ELSE Ok(<<>>)


_checkResponseByteCount(payload) ==
    LET c == _checkString(payload, "payload", 1, None)
    IN  IF ~c.ok THEN c
        ELSE IF payload[1] # Len(payload) - 1
        THEN Err("ValueError", "Wrong given number of bytes in the response")
        ELSE Ok(<<>>)

_checkResponseRegisterAddress(payload, registeraddress) ==
    LET c == FirstErr(<<_checkString(payload, "payload", 2, None),
                        _checkRegisteraddress(registeraddress)>>)
    IN  IF ~c.ok THEN c
        ELSE IF _unpack(FALSE, Slice(payload, 0, 2)) # registeraddress
        THEN Err("ValueError", "Wrong given write start adress")
        ELSE Ok(<<>>)

_checkResponseNumberOfRegisters(payload, numberOfRegisters) ==
    LET c == FirstErr(<<_checkString(payload, "payload", 4, None),
                        _checkInt(numberOfRegisters, Lim(1), Lim(65535),
                                  "numberOfRegisters")>>)
    IN  IF ~c.ok THEN c
        ELSE IF _unpack(FALSE, Slice(payload, 2, 4)) # numberOfRegisters
        THEN Err("ValueError", "Wrong number of registers to write in the response")
        ELSE Ok(<<>>)

\* a variant of _checkResponseWriteData that accepts every echo
AcceptWriteData(payload, writedata) == Ok(<<>>)

_checkResponseWriteData(payload, writedata) ==
    LET c == FirstErr(<<_checkString(payload, "payload", 4, None),
                        _checkString(writedata, "writedata", 2, Lim(2))>>)
    IN  IF ~c.ok THEN c
        ELSE IF Slice(payload, 2, 4) # writedata
        THEN Err("ValueError", "Wrong write data in the response")
        ELSE Ok(<<>>)

-----------------------------------------------------------------------------
(* Checksum engine *)

\* a variant of CrcShift that never XORs the polynomial
RECURSIVE ShiftWithoutPoly(_, _)
ShiftWithoutPoly(register, i) ==
    IF i = 0 THEN register
    ELSE ShiftWithoutPoly(_rightshift(register)[1], i - 1)


RECURSIVE CrcShift(_, _)
CrcShift(register, i) ==
    IF i = 0 THEN register
    ELSE LET sh == _rightshift(register)
         IN  CrcShift(IF sh[2] = 1 THEN _XOR(sh[1], POLY) ELSE sh[1], i - 1)

\* the loop over the characters; _XOR checks its arguments with
\* _checkInt(minvalue=0), which a register of the loop always passes.  The
\* characters are taken in two halves, the register after the first half
\* being the one the second half starts with, which keeps the nesting of
\* the evaluation shallow for a frame of some hundred bytes.
RECURSIVE CrcRegister(_, _)
CrcRegister(inputstring, register) ==
    IF inputstring = <<>> THEN register
    ELSE IF register < 0 THEN -1
    ELSE IF Len(inputstring) = 1
    THEN CrcShift(_XOR(register, inputstring[1]), 8)
    ELSE LET half == Len(inputstring) \div 2
         IN  CrcRegister(SubSeq(inputstring, half + 1, Len(inputstring)),
                         CrcRegister(SubSeq(inputstring, 1, half), register))

_calculateCrcString(inputstring) ==
    _numToTwoByteString(IntV(CrcRegister(inputstring, 65535)), 0, TRUE, FALSE).val

RECURSIVE SumBytes(_)
SumBytes(s) ==
    IF s = <<>> THEN 0
    ELSE IF Len(s) = 1 THEN s[1]
    ELSE SumBytes(SubSeq(s, 1, Len(s) \div 2))
         + SumBytes(SubSeq(s, Len(s) \div 2 + 1, Len(s)))

\* a variant of _calculateLrcString that gives the one's complement
LrcOnesComplement(inputstring) ==
    _numToOneByteString(_XOR(SumBytes(inputstring), 255) % 256).val


\* (register ^ 0xFF) + 1) & 0xFF on the unbounded sum
_calculateLrcString(inputstring) ==
    LET register == SumBytes(inputstring)
        lrc == (_XOR(register, 255) + 1) % 256
    IN  _numToOneByteString(lrc).val

-----------------------------------------------------------------------------
(* Hex coding of ASCII frames: characters are kept as their codes *)

\* a variant of HexChar that writes the letters in lower case
HexCharLower(n) == IF n < 10 THEN 48 + n ELSE 87 + n


HexChar(n) == IF n < 10 THEN 48 + n ELSE 55 + n

RECURSIVE _hexencode(_)
_hexencode(bytestring) ==
    IF bytestring = <<>> THEN <<>>
    ELSE IF Len(bytestring) = 1
    THEN <<HexChar(bytestring[1] \div 16), HexChar(bytestring[1] % 16)>>
    ELSE _hexencode(SubSeq(bytestring, 1, Len(bytestring) \div 2))
         \o _hexencode(SubSeq(bytestring, Len(bytestring) \div 2 + 1,
                              Len(bytestring)))

\* a variant of the hex digits that refuses the lower-case letters
HexValUpperOnly(c) ==
    IF c \in 48..57 THEN c - 48
    ELSE IF c \in 65..70 THEN c - 55
    ELSE -1

\* binascii.unhexlify takes '0'-'9', 'A'-'F' and 'a'-'f'; -1 for any other
HexVal(c) ==
    IF c >= 48 /\ c <= 57 THEN c - 48
    ELSE IF c >= 65 /\ c <= 70 THEN c - 55
    ELSE IF c >= 97 /\ c <= 102 THEN c - 87
    ELSE -1

RECURSIVE Unhexlify(_)
Unhexlify(hexstring) ==
    IF hexstring = <<>> THEN <<>>
    ELSE IF Len(hexstring) <= 2
    THEN <<16 * HexVal(hexstring[1]) + HexVal(hexstring[2])>>
    ELSE LET half == 2 * (Len(hexstring) \div 4)
         IN  Unhexlify(SubSeq(hexstring, 1, half))
             \o Unhexlify(SubSeq(hexstring, half + 1, Len(hexstring)))

_hexdecode(hexstring) ==
    IF Len(hexstring) % 2 # 0
    THEN Err("ValueError", "The input hexstring must be of even length")
    ELSE IF \E i \in 1..Len(hexstring) : HexVal(hexstring[i]) = -1
    THEN Err("TypeError", "Hexdecode reported an error")
    ELSE Ok(Unhexlify(hexstring))

-----------------------------------------------------------------------------
(* Frame codec *)

\* the message built from firstPart = address byte + function code byte + payload
FrameOf(mode, firstPart) ==
    IF mode = MODE_ASCII
    THEN _ASCII_HEADER \o _hexencode(firstPart)
         \o _hexencode(_calculateLrcString(firstPart)) \o _ASCII_FOOTER
    ELSE firstPart \o _calculateCrcString(firstPart)

\* a variant of _embedPayload that appends no checksum and no ASCII framing
EmbedWithoutChecksum(subordinateaddress, mode, functioncode, payloaddata) ==
    Ok(<<subordinateaddress, functioncode>> \o payloaddata)

_embedPayload(subordinateaddress, mode, functioncode, payloaddata) ==
    LET c == FirstErr(<<_checkSubordinateaddress(subordinateaddress),
                        _checkMode(mode),
                        _checkFunctioncode(functioncode, None)>>)
    IN  IF ~c.ok THEN c
        ELSE Ok(FrameOf(mode, <<subordinateaddress, functioncode>> \o payloaddata))

\* a variant of ExtractFromRtuLike that compares the address before the
\* checksum
ExtractAddressFirst(response, subordinateaddress, mode, functioncode) ==
    LET numberOfChecksumBytes == IF mode = MODE_ASCII THEN 1 ELSE 2
        receivedChecksum == LastN(response, numberOfChecksumBytes)
        responseWithoutChecksum ==
            Slice(response, 0, Len(response) - numberOfChecksumBytes)
        calculatedChecksum ==
            IF mode = MODE_ASCII
            THEN _calculateLrcString(responseWithoutChecksum)
            ELSE _calculateCrcString(responseWithoutChecksum)
    IN  IF response[1] # subordinateaddress
        THEN Err("ValueError", "Wrong return subordinate address")
        ELSE IF receivedChecksum # calculatedChecksum
        THEN Err("ValueError", "Checksum error")
        ELSE IF response[2] =
                _setBitOn(functioncode, BITNUMBER_FUNCTIONCODE_ERRORINDICATION)
        THEN Err("ValueError", "The subordinate is indicating an error")
        ELSE IF response[2] # functioncode
        THEN Err("ValueError", "Wrong functioncode")
        ELSE Ok(Slice(response, 2, Len(response) - numberOfChecksumBytes))


\* the part of _extractPayload after the ASCII frame has been stripped and
\* hex-decoded: checksum, address, function code, payload
ExtractFromRtuLike(response, subordinateaddress, mode, functioncode) ==
    LET numberOfChecksumBytes == IF mode = MODE_ASCII THEN 1 ELSE 2
        receivedChecksum == LastN(response, numberOfChecksumBytes)
        responseWithoutChecksum ==
            Slice(response, 0, Len(response) - numberOfChecksumBytes)
        calculatedChecksum ==
            IF mode = MODE_ASCII
            THEN _calculateLrcString(responseWithoutChecksum)
            ELSE _calculateCrcString(responseWithoutChecksum)
        responseaddress == response[1]
        receivedFunctioncode == response[2]
    IN  IF receivedChecksum # calculatedChecksum
        THEN Err("ValueError", "Checksum error")
        ELSE IF responseaddress # subordinateaddress
        THEN Err("ValueError", "Wrong return subordinate address")
        ELSE IF receivedFunctioncode =
                _setBitOn(functioncode, BITNUMBER_FUNCTIONCODE_ERRORINDICATION)
        THEN Err("ValueError", "The subordinate is indicating an error")
        ELSE IF receivedFunctioncode # functioncode
        THEN Err("ValueError", "Wrong functioncode")
        ELSE Ok(Slice(response, 2, Len(response) - numberOfChecksumBytes))

\* a variant of _extractPayload that strips an RTU frame without any check
ExtractUnchecked(response, subordinateaddress, mode, functioncode) ==
    Ok(Slice(response, 2, Len(response) - 2))

\* a variant of _extractPayload without the two tests of the minimum length:
\* a short response goes on to the next checks (indexing a byte that is not
\* there raises IndexError)
ExtractAnyLength(response, subordinateaddress, mode, functioncode) ==
    LET c == FirstErr(<<_checkSubordinateaddress(subordinateaddress),
                        _checkMode(mode),
                        _checkFunctioncode(functioncode, None)>>)
        stripped == SubSeq(response, 2, Len(response) - 2)
        rtulike == IF mode = MODE_ASCII THEN _hexdecode(stripped)
                   ELSE Ok(response)
    IN  IF ~c.ok THEN c
        ELSE IF response = <<>> THEN Err("IndexError", "string index out of range")
        ELSE IF mode = MODE_ASCII /\ <<response[1]>> # _ASCII_HEADER
        THEN Err("ValueError", "Did not find header")
        ELSE IF mode = MODE_ASCII /\ LastN(response, Len(_ASCII_FOOTER)) # _ASCII_FOOTER
        THEN Err("ValueError", "Did not find footer")
        ELSE IF mode = MODE_ASCII /\ Len(stripped) % 2 # 0
        THEN Err("ValueError",
                 "Stripped ASCII frames should have an even number of bytes")
        ELSE IF ~rtulike.ok THEN rtulike
        ELSE IF Len(rtulike.val) < 2
        THEN Err("IndexError", "string index out of range")
        ELSE ExtractFromRtuLike(rtulike.val, subordinateaddress, mode,
                                functioncode)


_extractPayload(response, subordinateaddress, mode, functioncode) ==
    LET c == FirstErr(<<_checkSubordinateaddress(subordinateaddress),
                        _checkMode(mode),
                        _checkFunctioncode(functioncode, None)>>)
    IN  IF ~c.ok THEN c
        ELSE IF mode = MODE_ASCII
        THEN IF Len(response) < MINIMAL_RESPONSE_LENGTH_ASCII
             THEN Err("ValueError", "Too short Modbus ASCII response")
             ELSE IF <<response[1]>> # _ASCII_HEADER
             THEN Err("ValueError", "Did not find header")
             ELSE IF LastN(response, Len(_ASCII_FOOTER)) # _ASCII_FOOTER
             THEN Err("ValueError", "Did not find footer")
             ELSE LET stripped == SubSeq(response, 2, Len(response) - 2)
                  IN  IF Len(stripped) % 2 # 0
                      THEN Err("ValueError",
                               "Stripped ASCII frames should have an even number of bytes")
                      ELSE LET decoded == _hexdecode(stripped)
                           IN  IF ~decoded.ok THEN decoded
                               ELSE ExtractFromRtuLike(decoded.val,
                                        subordinateaddress, mode, functioncode)
        ELSE IF Len(response) < MINIMAL_RESPONSE_LENGTH_RTU
        THEN Err("ValueError", "Too short Modbus RTU response")
        ELSE ExtractFromRtuLike(response, subordinateaddress, mode, functioncode)

\* a variant of _predictResponseSize that does not count the byte-count
\* field of the response to a read
PredictWithoutByteCount(mode, functioncode, payloadToSubordinate) ==
    LET given_size == _unpack(FALSE, Slice(payloadToSubordinate, 2, 4))
        response_payload_size ==
            IF functioncode \in {5, 6, 15, 16} THEN 4
            ELSE IF functioncode \in {1, 2}
            THEN given_size \div 8 + (IF given_size % 8 # 0 THEN 1 ELSE 0)
            ELSE given_size * _NUMBER_OF_BYTES_PER_REGISTER
    IN  IF mode = MODE_ASCII
        THEN Ok(<<5 + response_payload_size * 2 + 4>>)
        ELSE Ok(<<2 + response_payload_size + 2>>)


_predictResponseSize(mode, functioncode, payloadToSubordinate) ==
    LET c == FirstErr(<<_checkMode(mode),
                        _checkFunctioncode(functioncode, None),
                        _checkString(payloadToSubordinate, "payload", 4, None)>>)
        given_size == _unpack(FALSE, Slice(payloadToSubordinate, 2, 4))
        response_payload_size ==
            IF functioncode \in {5, 6, 15, 16} THEN 4
            ELSE IF functioncode \in {1, 2}
            THEN 1 + given_size \div 8 + (IF given_size % 8 # 0 THEN 1 ELSE 0)
            ELSE 1 + given_size * _NUMBER_OF_BYTES_PER_REGISTER
    IN  IF ~c.ok THEN c
        ELSE IF functioncode \notin {1, 2, 3, 4, 5, 6, 15, 16}
        THEN Err("ValueError", "Wrong functioncode")
        ELSE IF mode = MODE_ASCII
        THEN Ok(<<5 + response_payload_size * 2 + 4>>)
        ELSE Ok(<<2 + response_payload_size + 2>>)

-----------------------------------------------------------------------------
(* The public operations of Instrument.  A call is a record                *)
(*   [op, registeraddress, functioncode, value, numberOfDecimals,          *)
(*    numberOfRegisters, signed]                                           *)
(* holding the arguments the operation takes (the others are unused).      *)

ReadOps == {"read_bit", "read_register", "read_long", "read_float",
            "read_string", "read_registers"}
WriteOps == {"write_bit", "write_register", "write_long", "write_float",
             "write_string", "write_registers"}
PublicOps == ReadOps \cup WriteOps

\* the argument checks each public method makes before _genericCommand
PublicChecks(c) ==
    CASE c.op = "read_bit" ->
           _checkFunctioncode(c.functioncode, <<{1, 2}>>)
      [] c.op = "write_bit" ->
           FirstErr(<<_checkFunctioncode(c.functioncode, <<{5, 15}>>),
                      _checkIntV(c.value, Lim(0), Lim(1), "input value")>>)
      [] c.op = "read_register" ->
           FirstErr(<<_checkFunctioncode(c.functioncode, <<{3, 4}>>),
                      _checkInt(c.numberOfDecimals, Lim(0), Lim(10),
                                "number of decimals")>>)
      [] c.op = "write_register" ->
           FirstErr(<<_checkFunctioncode(c.functioncode, <<{6, 16}>>),
                      _checkInt(c.numberOfDecimals, Lim(0), Lim(10),
                                "number of decimals"),
                      _checkNumericalV(c.value, "input value")>>)
      [] c.op = "read_long" ->
           _checkFunctioncode(c.functioncode, <<{3, 4}>>)
      [] c.op = "write_long" ->
           _checkIntWide(c.value, MIN_VALUE_LONG, MAX_VALUE_LONG, "input value")
      [] c.op = "read_float" ->
           FirstErr(<<_checkFunctioncode(c.functioncode, <<{3, 4}>>),
                      _checkInt(c.numberOfRegisters, Lim(2), Lim(4),
                                "number of registers")>>)
      [] c.op = "write_float" ->
           FirstErr(<<_checkNumericalV(c.value, "input value"),
                      _checkInt(c.numberOfRegisters, Lim(2), Lim(4),
                                "number of registers")>>)
      [] c.op = "read_string" ->
           FirstErr(<<_checkFunctioncode(c.functioncode, <<{3, 4}>>),
                      _checkInt(c.numberOfRegisters, Lim(1), None,
                                "number of registers for read string")>>)
      [] c.op = "write_string" ->
           LET c1 == _checkInt(c.numberOfRegisters, Lim(1), None,
                               "number of registers for write string")
           IN  IF ~c1.ok THEN c1
               ELSE _checkStringV(c.value, "input string", 1,
                                  Lim(2 * c.numberOfRegisters))
      [] c.op = "read_registers" ->
           FirstErr(<<_checkFunctioncode(c.functioncode, <<{3, 4}>>),
                      _checkInt(c.numberOfRegisters, Lim(1), None,
                                "number of registers")>>)
      [] c.op = "write_registers" ->
           IF c.value.ty # "list"
           THEN Err("TypeError", "The values parameter must be a list")
           ELSE _checkInt(Len(c.value.items), Lim(1), None,
                          "length of input list")

\* the arguments each public method passes to _genericCommand
\* (payloadformat "" stands for None)
G(functioncode, registeraddress, value, numberOfDecimals, numberOfRegisters, signed, payloadformat) ==
    [functioncode |-> functioncode, registeraddress |-> registeraddress,
     value |-> value, numberOfDecimals |-> numberOfDecimals,
     numberOfRegisters |-> numberOfRegisters, signed |-> signed,
     payloadformat |-> payloadformat]

GenericArgs(c) ==
    CASE c.op = "read_bit" ->
           G(c.functioncode, c.registeraddress, NoneV, 0, 1, FALSE, "")
      [] c.op = "write_bit" ->
           G(c.functioncode, c.registeraddress, c.value, 0, 1, FALSE, "")
      [] c.op = "read_register" ->
           G(c.functioncode, c.registeraddress, NoneV, c.numberOfDecimals, 1,
             c.signed, "")
      [] c.op = "write_register" ->
           G(c.functioncode, c.registeraddress, c.value, c.numberOfDecimals,
             1, c.signed, "")
      [] c.op = "read_long" ->
           G(c.functioncode, c.registeraddress, NoneV, 0, 2, c.signed, "long")
      [] c.op = "write_long" ->
           G(16, c.registeraddress, c.value, 0, 2, c.signed, "long")
      [] c.op = "read_float" ->
           G(c.functioncode, c.registeraddress, NoneV, 0, c.numberOfRegisters,
             FALSE, "float")
      [] c.op = "write_float" ->
           G(16, c.registeraddress, c.value, 0, c.numberOfRegisters, FALSE,
             "float")
      [] c.op = "read_string" ->
           G(c.functioncode, c.registeraddress, NoneV, 0, c.numberOfRegisters,
             FALSE, "string")
      [] c.op = "write_string" ->
           G(16, c.registeraddress, c.value, 0, c.numberOfRegisters, FALSE,
             "string")
      [] c.op = "read_registers" ->
           G(c.functioncode, c.registeraddress, NoneV, 0, c.numberOfRegisters,
             FALSE, "registers")
      [] c.op = "write_registers" ->
           G(16, c.registeraddress, c.value, 0, Len(c.value.items), FALSE,
             "registers")

-----------------------------------------------------------------------------
(* _genericCommand *)

ALL_ALLOWED_FUNCTIONCODES == {1, 2, 3, 4, 5, 6, 15, 16}
ALL_PAYLOADFORMATS == {"long", "float", "string", "register", "registers"}

\* the payload format after 'if functioncode in [3, 4, 6, 16] and
\* payloadformat is None'
PayloadFormat(g) ==
    IF g.functioncode \in {3, 4, 6, 16} /\ g.payloadformat = ""
    THEN "register" ELSE g.payloadformat

\* '## Check input values ##' and '## Check combinations of input parameters ##'
GenericChecks(g) ==
    LET pf == PayloadFormat(g)
        numberOfRegisterBytes == g.numberOfRegisters * _NUMBER_OF_BYTES_PER_REGISTER
        inputs == FirstErr(<<
            _checkFunctioncode(g.functioncode, <<ALL_ALLOWED_FUNCTIONCODES>>),
            _checkRegisteraddress(g.registeraddress),
            _checkInt(g.numberOfDecimals, Lim(0), None, "number of decimals"),
            _checkInt(g.numberOfRegisters, Lim(1), Lim(MAX_NUMBER_OF_REGISTERS),
                      "number of registers")>>)
    IN  IF ~inputs.ok THEN inputs
        ELSE IF g.payloadformat # "" /\ g.payloadformat \notin ALL_PAYLOADFORMATS
        THEN Err("ValueError", "Wrong payload format variable")
        ELSE IF g.functioncode \in {3, 4, 6, 16} /\ pf \notin ALL_PAYLOADFORMATS
        THEN Err("ValueError", "The payload format is unknown")
        ELSE IF g.functioncode \notin {3, 4, 6, 16} /\ pf # ""
        THEN Err("ValueError",
                 "The payload format given is not allowed for this function code")
        ELSE IF g.signed /\ pf \notin {"register", "long"}
        THEN Err("ValueError",
                 "The signed parameter can not be used for this data format")
        ELSE IF g.numberOfDecimals > 0 /\ pf # "register"
        THEN Err("ValueError",
                 "The numberOfDecimals parameter can not be used for this data format")
        ELSE IF g.functioncode \notin {3, 4, 16} /\ g.numberOfRegisters # 1
        THEN Err("ValueError",
                 "The numberOfRegisters is not valid for this function code")
        ELSE IF g.functioncode = 16 /\ pf = "register" /\ g.numberOfRegisters # 1
        THEN Err("ValueError",
                 "Wrong numberOfRegisters when writing to a single register")
        ELSE IF g.functioncode \in {5, 6, 15, 16} /\ g.value.ty = "None"
        THEN Err("ValueError", "The input value is not valid for this function code")
        ELSE IF g.functioncode = 16 /\ pf \in {"register", "float", "long"}
                /\ ~_checkNumericalV(g.value, "input value").ok
        THEN _checkNumericalV(g.value, "input value")
        ELSE IF g.functioncode = 6 /\ pf = "register"
                /\ ~_checkNumericalV(g.value, "input value").ok
        THEN _checkNumericalV(g.value, "input value")
        ELSE IF g.functioncode = 16 /\ pf = "string"
                /\ ~_checkStringV(g.value, "input string", 1,
                                  Lim(numberOfRegisterBytes)).ok
        THEN _checkStringV(g.value, "input string", 1, Lim(numberOfRegisterBytes))
        ELSE IF g.functioncode = 16 /\ pf = "registers" /\ g.value.ty # "list"
        THEN Err("TypeError", "The value parameter must be a list")
        ELSE IF g.functioncode = 16 /\ pf = "registers"
                /\ Len(g.value.items) # g.numberOfRegisters
        THEN Err("ValueError", "The list length does not match number of registers")
        ELSE Ok(<<>>)

\* the concatenation of byte strings each of which may raise
RECURSIVE Concat(_)
Concat(parts) ==
    IF parts = <<>> THEN Ok(<<>>)
    ELSE IF ~Head(parts).ok THEN Head(parts)
    ELSE LET rest == Concat(Tail(parts))
         IN  IF ~rest.ok THEN rest ELSE Ok(Head(parts).val \o rest.val)

\* registerdata of a function code 16 request
RegisterData(g) ==
    LET pf == PayloadFormat(g)
    IN  CASE pf = "register" ->
               _numToTwoByteString(g.value, g.numberOfDecimals, FALSE, g.signed)
          [] pf = "string" ->
               _textstringToBytestring(g.value, g.numberOfRegisters)
          [] pf = "long" ->
               _longToBytestring(g.value, g.signed, g.numberOfRegisters)
          [] pf = "float" ->
               _floatToBytestring(g.value, g.numberOfRegisters)
          [] pf = "registers" ->
               _valuelistToBytestring(g.value, g.numberOfRegisters)

\* '## Build payload to subordinate ##'
BuildPayload(g) ==
    LET address == _numToTwoByteString(IntV(g.registeraddress), 0, FALSE, FALSE)
        NUMBER_OF_BITS == _numToTwoByteString(IntV(1), 0, FALSE, FALSE)
    IN  CASE g.functioncode \in {1, 2} -> Concat(<<address, NUMBER_OF_BITS>>)
          [] g.functioncode \in {3, 4} ->
               Concat(<<address,
                        _numToTwoByteString(IntV(g.numberOfRegisters), 0, FALSE,
                                            FALSE)>>)
          [] g.functioncode = 5 ->
               Concat(<<address, _createBitpattern(g.functioncode, g.value)>>)
          [] g.functioncode = 6 ->
               Concat(<<address,
                        _numToTwoByteString(g.value, g.numberOfDecimals, FALSE,
                                            g.signed)>>)
          [] g.functioncode = 15 ->
               Concat(<<address, NUMBER_OF_BITS, _numToOneByteString(1),
                        _createBitpattern(g.functioncode, g.value)>>)
          [] g.functioncode = 16 ->
               LET registerdata == RegisterData(g)
                   numberOfRegisterBytes ==
                       g.numberOfRegisters * _NUMBER_OF_BYTES_PER_REGISTER
               IN  IF ~registerdata.ok THEN registerdata
                   ELSE IF Len(registerdata.val) # numberOfRegisterBytes
                   THEN Err("AssertionError", "len(registerdata)")
                   ELSE Concat(<<address,
                                 _numToTwoByteString(IntV(g.numberOfRegisters),
                                                     0, FALSE, FALSE),
                                 _numToOneByteString(numberOfRegisterBytes),
                                 registerdata>>)

\* '## Check the contents in the response payload ##'
ResponseChecks(g, payloadFromSubordinate) ==
    LET fc == g.functioncode
        p == payloadFromSubordinate
        c1 == IF fc \in {1, 2, 3, 4} THEN _checkResponseByteCount(p) ELSE Ok(<<>>)
        c2 == IF fc \in {5, 6, 15, 16}
              THEN _checkResponseRegisterAddress(p, g.registeraddress)
              ELSE Ok(<<>>)
        c3 == IF fc = 5
              THEN _checkResponseWriteData(p, _createBitpattern(fc, g.value).val)
              ELSE Ok(<<>>)
        c4 == IF fc = 6
              THEN _checkResponseWriteData(p,
                       _numToTwoByteString(g.value, g.numberOfDecimals, FALSE,
                                           g.signed).val)
              ELSE Ok(<<>>)
        c5 == IF fc = 15 THEN _checkResponseNumberOfRegisters(p, 1) ELSE Ok(<<>>)
        c6 == IF fc = 16
              THEN _checkResponseNumberOfRegisters(p, g.numberOfRegisters)
              ELSE Ok(<<>>)
    IN  IF ~c1.ok THEN c1
        ELSE IF ~c2.ok THEN c2
        ELSE IF ~c3.ok THEN c3
        ELSE IF ~c4.ok THEN c4
        ELSE IF ~c5.ok THEN c5
        ELSE c6

\* '## Calculate return value ##': Ok(<<>>) is the return of None
ReturnValue(g, payloadFromSubordinate) ==
    LET fc == g.functioncode
        pf == PayloadFormat(g)
        registerdata == Slice(payloadFromSubordinate, 1, Len(payloadFromSubordinate))
    IN  IF fc \in {1, 2}
        THEN IF Len(registerdata) # 1
             THEN Err("ValueError",
                      "The registerdata length does not match NUMBER_OF_BYTES_FOR_ONE_BIT")
             ELSE _bitResponseToValue(registerdata)
        ELSE IF fc \in {3, 4}
        THEN IF Len(registerdata) # g.numberOfRegisters * _NUMBER_OF_BYTES_PER_REGISTER
             THEN Err("ValueError",
                      "The registerdata length does not match number of register bytes")
             ELSE CASE pf = "string" ->
                         _bytestringToTextstring(registerdata, g.numberOfRegisters)
                    [] pf = "long" ->
                         _bytestringToLong(registerdata, g.signed, g.numberOfRegisters)
                    [] pf = "float" ->
                         _bytestringToFloat(registerdata, g.numberOfRegisters)
                    [] pf = "registers" ->
                         _bytestringToValuelist(registerdata, g.numberOfRegisters)
                    [] pf = "register" ->
                         _twoByteStringToNum(registerdata, g.numberOfDecimals,
                                             g.signed)
        ELSE Ok(<<>>)

\* _genericCommand up to '## Communicate ##': the payload to send
GenericPrepare(g) ==
    LET c == GenericChecks(g)
    IN  IF ~c.ok THEN c ELSE BuildPayload(g)

\* _genericCommand after '## Communicate ##'
GenericFinish(g, payloadFromSubordinate) ==
    LET c == ResponseChecks(g, payloadFromSubordinate)
    IN  IF ~c.ok THEN c ELSE ReturnValue(g, payloadFromSubordinate)

\* a public method up to the call of _performCommand
PublicPrepare(c) ==
    LET pub == PublicChecks(c)
    IN  IF ~pub.ok THEN pub ELSE GenericPrepare(GenericArgs(c))

\* _performCommand up to '# Communicate': the message and the read size,
\* returned as <<message, number_of_bytes_to_read>>
PerformPrepare(self, functioncode, payloadToSubordinate) ==
    LET c == _checkFunctioncode(functioncode, None)
        message == _embedPayload(self.address, self.mode, functioncode,
                                 payloadToSubordinate)
        predicted == _predictResponseSize(self.mode, functioncode,
                                          payloadToSubordinate)
        number_of_bytes_to_read ==
            IF self.precalculate_read_size /\ predicted.ok
            THEN predicted.val[1] ELSE DEFAULT_NUMBER_OF_BYTES_TO_READ
    IN  IF ~c.ok THEN c
        ELSE IF ~message.ok THEN message
        ELSE Ok(<<message.val, number_of_bytes_to_read>>)

-----------------------------------------------------------------------------
(* The serial port (pySerial) and the time, as the code uses them *)

Ports == {"COM4", "COM5"}
InstIds == 1..MaxInstruments

\* ticks of time.time() per second: the silent period at 9600 and at 19200
\* baud is a whole number of ticks
TicksPerSecond == 38400

\* the clock when the program starts, far from the epoch 0
StartTime == 1000

\* the time a read takes (a response or the timeout), in ticks
RoundTrip == 100

\* bittime * BITTIMES_PER_CHARACTERTIME * MINIMUM_SILENT_CHARACTERTIMES,
\* 11 * 3.5 = 77 / 2 bit times
_calculate_minimum_silent_period(baudrate) ==
    (TicksPerSecond * 77) \div (2 * baudrate)

NoInst ==
    [constructed |-> FALSE, serial |-> 0, address |-> 0, mode |-> "",
     close_port_after_each_call |-> FALSE, precalculate_read_size |-> FALSE]

NoCall ==
    [op |-> "", registeraddress |-> 0, functioncode |-> 0, value |-> NoneV,
     numberOfDecimals |-> 0, numberOfRegisters |-> 0, signed |-> FALSE]

NoWire == [message |-> <<>>, number_of_bytes_to_read |-> 0, answer |-> <<>>]

\* status: "none" while the call runs, then "returned" or "raised"
NoResult == [status |-> "none", val |-> <<>>, exc |-> "", msg |-> ""]
Returned(r) == [status |-> "returned", val |-> r.val, exc |-> "", msg |-> ""]
Raised(r) == [status |-> "raised", val |-> <<>>, exc |-> r.exc, msg |-> r.msg]

\* the uses of the transport during the call: serial.open(), serial.write()
\* and serial.read() calls made (whether or not they succeeded)
NoIo == [opens |-> 0, writes |-> 0, reads |-> 0]

Idle(s) == pc[s] = "idle"
AllIdle == \A s \in InstIds : Idle(s)

Init ==
    /\ SERIALPORTS = [p \in Ports |-> 0]
    /\ conns = <<>>
    /\ LATEST_READ_TIMES = [p \in Ports |-> -1]
    /\ now = StartTime
    /\ inst = [s \in InstIds |-> NoInst]
    /\ pc = [s \in InstIds |-> "idle"]
    /\ call = [s \in InstIds |-> NoCall]
    /\ wire = [s \in InstIds |-> NoWire]
    /\ result = [s \in InstIds |-> NoResult]
    /\ io = [s \in InstIds |-> NoIo]
    /\ ncalls = 0
    /\ codec = <<>>

\* a variant of Instrument.__init__ that makes a serial.Serial object for
\* every session
ConstructOwnConnection(s, port, subordinateaddress, mode) ==
    /\ ~inst[s].constructed
    /\ \A t \in InstIds : t < s => inst[t].constructed
    /\ AllIdle
    /\ SERIALPORTS' = [SERIALPORTS EXCEPT ![port] = Len(conns) + 1]
    /\ conns' = Append(conns, [port |-> port,
                               is_open |-> ~CLOSE_PORT_AFTER_EACH_CALL,
                               baudrate |-> BAUDRATE])
    /\ inst' = [inst EXCEPT ![s] =
           [constructed |-> TRUE, serial |-> Len(conns) + 1,
            address |-> subordinateaddress, mode |-> mode,
            close_port_after_each_call |-> CLOSE_PORT_AFTER_EACH_CALL,
            precalculate_read_size |-> FALSE]]
    /\ UNCHANGED <<LATEST_READ_TIMES, now, pc, call, wire, result, io, ncalls,
                   codec>>

\* Instrument.__init__: serial.Serial(port=...) opens the port it creates
Construct(s, port, subordinateaddress, mode) ==
    /\ ~inst[s].constructed
    /\ \A t \in InstIds : t < s => inst[t].constructed
    /\ AllIdle
    /\ LET fresh == SERIALPORTS[port] = 0
           id == IF fresh THEN Len(conns) + 1 ELSE SERIALPORTS[port]
           created == IF fresh
                      THEN Append(conns, [port |-> port, is_open |-> TRUE,
                                          baudrate |-> BAUDRATE])
                      ELSE conns
       IN  /\ SERIALPORTS' = [SERIALPORTS EXCEPT ![port] = id]
           /\ conns' = IF CLOSE_PORT_AFTER_EACH_CALL
                       THEN [created EXCEPT ![id].is_open = FALSE]
                       ELSE created
           /\ inst' = [inst EXCEPT ![s] =
                  [constructed |-> TRUE, serial |-> id,
                   address |-> subordinateaddress, mode |-> mode,
                   close_port_after_each_call |-> CLOSE_PORT_AFTER_EACH_CALL,
                   precalculate_read_size |-> FALSE]]
    /\ UNCHANGED <<LATEST_READ_TIMES, now, pc, call, wire, result, io, ncalls,
                   codec>>

\* the caller sets the attribute close_port_after_each_call
SetClosePortAfterEachCall(s, b) ==
    /\ inst[s].constructed /\ AllIdle
    /\ inst[s].close_port_after_each_call # b
    /\ inst' = [inst EXCEPT ![s].close_port_after_each_call = b]
    /\ UNCHANGED <<SERIALPORTS, conns, LATEST_READ_TIMES, now, pc, call, wire,
                   result, io, ncalls, codec>>

\* the caller sets the attribute precalculate_read_size
SetPrecalculateReadSize(s, b) ==
    /\ inst[s].constructed /\ AllIdle
    /\ inst[s].precalculate_read_size # b
    /\ inst' = [inst EXCEPT ![s].precalculate_read_size = b]
    /\ UNCHANGED <<SERIALPORTS, conns, LATEST_READ_TIMES, now, pc, call, wire,
                   result, io, ncalls, codec>>

\* a variant of Call for callers that take no lock: the method is entered
\* while other sessions are inside their calls
CallWithoutLock(s, c, maxcalls) ==
    /\ inst[s].constructed /\ pc[s] = "idle"
    /\ ncalls < maxcalls
    /\ ncalls' = ncalls + 1
    /\ call' = [call EXCEPT ![s] = c]
    /\ io' = [io EXCEPT ![s] = NoIo]
    /\ LET payload == PublicPrepare(c)
           prepared == IF payload.ok
                       THEN PerformPrepare(inst[s], GenericArgs(c).functioncode,
                                           payload.val)
                       ELSE payload
       IN  IF prepared.ok
           THEN /\ pc' = [pc EXCEPT ![s] = "open"]
                /\ wire' = [wire EXCEPT ![s] =
                       [message |-> prepared.val[1],
                        number_of_bytes_to_read |-> prepared.val[2],
                        answer |-> <<>>]]
                /\ result' = [result EXCEPT ![s] = NoResult]
           ELSE /\ pc' = [pc EXCEPT ![s] = "done"]
                /\ wire' = [wire EXCEPT ![s] = NoWire]
                /\ result' = [result EXCEPT ![s] = Raised(prepared)]
    /\ UNCHANGED <<SERIALPORTS, conns, LATEST_READ_TIMES, now, inst, codec>>

\* a public method from its entry to the call of _communicate: the argument
\* checks, the payload and the message
Call(s, c, maxcalls) ==
    /\ inst[s].constructed /\ AllIdle
    /\ ncalls < maxcalls
    /\ ncalls' = ncalls + 1
    /\ call' = [call EXCEPT ![s] = c]
    /\ io' = [io EXCEPT ![s] = NoIo]
    /\ LET payload == PublicPrepare(c)
           prepared == IF payload.ok
                       THEN PerformPrepare(inst[s], GenericArgs(c).functioncode,
                                           payload.val)
                       ELSE payload
       IN  IF prepared.ok
           THEN /\ pc' = [pc EXCEPT ![s] = "open"]
                /\ wire' = [wire EXCEPT ![s] =
                       [message |-> prepared.val[1],
                        number_of_bytes_to_read |-> prepared.val[2],
                        answer |-> <<>>]]
                /\ result' = [result EXCEPT ![s] = NoResult]
           ELSE /\ pc' = [pc EXCEPT ![s] = "done"]
                /\ wire' = [wire EXCEPT ![s] = NoWire]
                /\ result' = [result EXCEPT ![s] = Raised(prepared)]
    /\ UNCHANGED <<SERIALPORTS, conns, LATEST_READ_TIMES, now, inst, codec>>

\* _communicate: 'if self.close_port_after_each_call: self.serial.open()';
\* pySerial raises SerialException when the port is open already
Open(s) ==
    /\ pc[s] = "open"
    /\ IF inst[s].close_port_after_each_call
       THEN /\ io' = [io EXCEPT ![s].opens = @ + 1]
            /\ IF conns[inst[s].serial].is_open
               THEN /\ pc' = [pc EXCEPT ![s] = "done"]
                    /\ result' = [result EXCEPT ![s] =
                           Raised(Err("SerialException", "Port is already open."))]
                    /\ conns' = conns
               ELSE /\ pc' = [pc EXCEPT ![s] = "write"]
                    /\ conns' = [conns EXCEPT ![inst[s].serial].is_open = TRUE]
                    /\ result' = result
       ELSE /\ pc' = [pc EXCEPT ![s] = "write"]
            /\ UNCHANGED <<io, conns, result>>
    /\ UNCHANGED <<SERIALPORTS, LATEST_READ_TIMES, now, inst, call, wire,
                   ncalls, codec>>

\* a variant of AfterSilence that never sleeps
NoSilence(s) == now

\* the time after the sleep that completes the silent period
AfterSilence(s) ==
    LET port == conns[inst[s].serial].port
        minimum_silent_period ==
            _calculate_minimum_silent_period(conns[inst[s].serial].baudrate)
        latest == IF LATEST_READ_TIMES[port] = -1 THEN 0
                  ELSE LATEST_READ_TIMES[port]
        time_since_read == now - latest
    IN  IF time_since_read < minimum_silent_period
        THEN now + (minimum_silent_period - time_since_read)
        ELSE now

\* _communicate: the sleep and 'self.serial.write(message)'; pySerial raises
\* when the port is not open
Write(s) ==
    /\ pc[s] = "write"
    /\ now' = AfterSilence(s)
    /\ io' = [io EXCEPT ![s].writes = @ + 1]
    /\ IF conns[inst[s].serial].is_open
       THEN /\ pc' = [pc EXCEPT ![s] = "read"]
            /\ result' = result
       ELSE /\ pc' = [pc EXCEPT ![s] = "done"]
            /\ result' = [result EXCEPT ![s] =
                   Raised(Err("SerialException",
                              "Attempting to use a port that is not open"))]
    /\ UNCHANGED <<SERIALPORTS, conns, LATEST_READ_TIMES, inst, call, wire,
                   ncalls, codec>>

\* serial.write raises on an open port (the device failed): the exception
\* leaves _communicate at once
WriteFail(s) ==
    /\ pc[s] = "write"
    /\ conns[inst[s].serial].is_open
    /\ now' = AfterSilence(s)
    /\ io' = [io EXCEPT ![s].writes = @ + 1]
    /\ pc' = [pc EXCEPT ![s] = "done"]
    /\ result' = [result EXCEPT ![s] =
           Raised(Err("SerialException", "write failed"))]
    /\ UNCHANGED <<SERIALPORTS, conns, LATEST_READ_TIMES, inst, call, wire,
                   ncalls, codec>>

\* a variant of Read that leaves _LATEST_READ_TIMES as it is
ReadWithoutTimestamp(s, answer) ==
    /\ pc[s] = "read"
    /\ io' = [io EXCEPT ![s].reads = @ + 1]
    /\ wire' = [wire EXCEPT ![s].answer =
           Slice(answer, 0, wire[s].number_of_bytes_to_read)]
    /\ now' = now + RoundTrip
    /\ conns' = IF inst[s].close_port_after_each_call
                THEN [conns EXCEPT ![inst[s].serial].is_open = FALSE]
                ELSE conns
    /\ pc' = [pc EXCEPT ![s] = "answer"]
    /\ UNCHANGED <<SERIALPORTS, LATEST_READ_TIMES, inst, call, result, ncalls,
                   codec>>

\* _communicate: 'answer = self.serial.read(number_of_bytes_to_read)', the
\* update of _LATEST_READ_TIMES and the closing of the port; the read returns
\* at most number_of_bytes_to_read bytes, none on a timeout
Read(s, answer) ==
    /\ pc[s] = "read"
    /\ io' = [io EXCEPT ![s].reads = @ + 1]
    /\ wire' = [wire EXCEPT ![s].answer =
           Slice(answer, 0, wire[s].number_of_bytes_to_read)]
    /\ now' = now + RoundTrip
    /\ LATEST_READ_TIMES' =
           [LATEST_READ_TIMES EXCEPT ![conns[inst[s].serial].port] = now']
    /\ conns' = IF inst[s].close_port_after_each_call
                THEN [conns EXCEPT ![inst[s].serial].is_open = FALSE]
                ELSE conns
    /\ pc' = [pc EXCEPT ![s] = "answer"]
    /\ UNCHANGED <<SERIALPORTS, inst, call, result, ncalls, codec>>

\* serial.read raises (the device failed): the exception leaves _communicate
\* at once
ReadFail(s) ==
    /\ pc[s] = "read"
    /\ io' = [io EXCEPT ![s].reads = @ + 1]
    /\ now' = now + RoundTrip
    /\ pc' = [pc EXCEPT ![s] = "done"]
    /\ result' = [result EXCEPT ![s] =
           Raised(Err("SerialException", "read failed"))]
    /\ UNCHANGED <<SERIALPORTS, conns, LATEST_READ_TIMES, inst, call, wire,
                   ncalls, codec>>

\* the rest of _communicate, _performCommand and _genericCommand: the raise
\* on an empty answer, _extractPayload, the response checks, the return value
Outcome(self, c, answer) ==
    LET g == GenericArgs(c)
        payloadFromSubordinate ==
            _extractPayload(answer, self.address, self.mode, g.functioncode)
    IN  IF Len(answer) = 0
        THEN Err("IOError", "No communication with the instrument (no answer)")
        ELSE IF ~payloadFromSubordinate.ok THEN payloadFromSubordinate
        ELSE GenericFinish(g, payloadFromSubordinate.val)

\* a variant of Finish that sends the request again when the answer is bad
FinishWithRetry(s) ==
    /\ pc[s] = "answer"
    /\ LET r == Outcome(inst[s], call[s], wire[s].answer)
       IN  IF r.ok \/ io[s].writes > 1
           THEN /\ result' = [result EXCEPT ![s] =
                       IF r.ok THEN Returned(r) ELSE Raised(r)]
                /\ pc' = [pc EXCEPT ![s] = "done"]
           ELSE /\ result' = result
                /\ pc' = [pc EXCEPT ![s] = "open"]
    /\ UNCHANGED <<SERIALPORTS, conns, LATEST_READ_TIMES, now, inst, call,
                   wire, io, ncalls, codec>>

Finish(s) ==
    /\ pc[s] = "answer"
    /\ LET r == Outcome(inst[s], call[s], wire[s].answer)
       IN  result' = [result EXCEPT ![s] = IF r.ok THEN Returned(r) ELSE Raised(r)]
    /\ pc' = [pc EXCEPT ![s] = "done"]
    /\ UNCHANGED <<SERIALPORTS, conns, LATEST_READ_TIMES, now, inst, call,
                   wire, io, ncalls, codec>>

\* the caller has the outcome and the instrument is ready for the next call
Return(s) ==
    /\ pc[s] = "done"
    /\ pc' = [pc EXCEPT ![s] = "idle"]
    /\ call' = [call EXCEPT ![s] = NoCall]
    /\ wire' = [wire EXCEPT ![s] = NoWire]
    /\ result' = [result EXCEPT ![s] = NoResult]
    /\ io' = [io EXCEPT ![s] = NoIo]
    /\ UNCHANGED <<SERIALPORTS, conns, LATEST_READ_TIMES, now, inst, ncalls,
                   codec>>

\* the program does something else for d ticks between two calls; the model
\* lets time pass once after a read, by less or by more than a silent period
Gaps ==
    {_calculate_minimum_silent_period(BAUDRATE) \div 2,
     2 * _calculate_minimum_silent_period(BAUDRATE)}

Elapse(d) ==
    /\ AllIdle
    /\ \E p \in Ports : LATEST_READ_TIMES[p] = now
    /\ now' = now + d
    /\ UNCHANGED <<SERIALPORTS, conns, LATEST_READ_TIMES, inst, pc, call, wire,
                   result, io, ncalls, codec>>

-----------------------------------------------------------------------------
(* The subordinate and the bus: the answers a read can return *)

Bump(b) == (b + 1) % 256

\* a byte string with the byte at position i (1-based) replaced
WithByte(bytes, i, b) == [bytes EXCEPT ![i] = b]

\* register data of n bytes
DataSample(n, first) == [i \in 1..n |-> IF i % 2 = 1 THEN first ELSE 2]

\* response payloads for the request g, well-formed and not
ResponsePayloads(g, request) ==
    LET n == g.numberOfRegisters * _NUMBER_OF_BYTES_PER_REGISTER
        echo == Slice(request, 0, 4)
    IN  IF g.functioncode \in {1, 2}
        THEN {<<1, 0>>, <<1, 1>>, <<1, 2>>, <<2, 1>>, <<2, 0, 1>>, <<>>}
        ELSE IF g.functioncode \in {3, 4}
        THEN {<<n % 256>> \o DataSample(n, 3), <<n % 256>> \o DataSample(n, 255),
              <<(n + 1) % 256>> \o DataSample(n, 3),
              <<(n + 2) % 256>> \o DataSample(n + 2, 3),
              <<Min(n, 255)>> \o DataSample(Min(n, 255), 3), <<>>}
        ELSE {echo, WithByte(echo, 2, Bump(echo[2])),
              WithByte(echo, 4, Bump(echo[4])),
              WithByte(echo, 3, Bump(echo[3])),
              Slice(echo, 0, 3), echo \o <<0>>}

\* a well-formed response payload for the request g
GoodPayload(g, request) ==
    IF g.functioncode \in {1, 2} THEN <<1, 1>>
    ELSE IF g.functioncode \in {3, 4}
    THEN <<(g.numberOfRegisters * 2) % 256>>
         \o DataSample(g.numberOfRegisters * 2, 3)
    ELSE Slice(request, 0, 4)

\* frames that are damaged or come from elsewhere
BadFrames(address, mode, g, request) ==
    LET fc == g.functioncode
        good == GoodPayload(g, request)
        frame == FrameOf(mode, <<address, fc>> \o good)
        n == Len(frame)
        common ==
            {FrameOf(mode, <<Bump(address), fc>> \o good),
             FrameOf(mode, <<address, (fc % 127) + 1>> \o good),
             FrameOf(mode, <<address, fc + 128>> \o <<2>>),
             FrameOf(mode, <<Bump(address), fc + 128>> \o <<2>>)}
    IN  IF mode = MODE_ASCII
        THEN common \cup
             {WithByte(frame, n - 2, IF frame[n - 2] = 48 THEN 49 ELSE 48),
              SubSeq(frame, 1, 8),
              WithByte(frame, 1, 59),
              WithByte(frame, n, 13),
              SubSeq(frame, 1, 3) \o SubSeq(frame, 5, n),
              WithByte(frame, 4, 71)}
        ELSE common \cup
             {WithByte(frame, n, Bump(frame[n])),
              SubSeq(frame, 1, 3)}

\* what the read of instrument self can return after the request of call c:
\* nothing (timeout) or a frame
Answers(self, c) ==
    LET g == GenericArgs(c)
        request == BuildPayload(g).val
    IN  {<<>>}
        \cup {FrameOf(self.mode, <<self.address, g.functioncode>> \o p) :
                 p \in ResponsePayloads(g, request)}
        \cup BadFrames(self.address, self.mode, g, request)

\* the read of instrument s returns one of the answers
Receive(s) ==
    /\ pc[s] = "read"
    /\ \E answer \in Answers(inst[s], call[s]) : Read(s, answer)

\* three of the answers: none, the well-formed one, one damaged on the bus
FewAnswers(self, c) ==
    LET g == GenericArgs(c)
        good == FrameOf(self.mode, <<self.address, g.functioncode>>
                                       \o GoodPayload(g, BuildPayload(g).val))
        n == Len(good)
    IN  {<<>>, good,
         WithByte(good, n - 2, IF good[n - 2] = 48 THEN 49 ELSE 48)}

\* the read of instrument s returns one of the three
ReceiveOneOfFew(s) ==
    /\ pc[s] = "read"
    /\ \E answer \in FewAnswers(inst[s], call[s]) : Read(s, answer)

-----------------------------------------------------------------------------
(* The calls and the instruments the specifications draw from *)

Modes == {MODE_RTU, MODE_ASCII}
Addresses == {1, 248}

C(op, registeraddress, functioncode, value, numberOfDecimals, numberOfRegisters, signed) ==
    [op |-> op, registeraddress |-> registeraddress,
     functioncode |-> functioncode, value |-> value,
     numberOfDecimals |-> numberOfDecimals,
     numberOfRegisters |-> numberOfRegisters, signed |-> signed]

FunctioncodeSamples == {0, 1, 2, 3, 4, 5, 6, 15, 16, 17, 128}
RegisteraddressSamples == {-1, 0, 65535, 65536}

\* a valid call of each public method
BaseCall(op) ==
    CASE op = "read_bit" -> C(op, 289, 2, NoneV, 0, 1, FALSE)
      [] op = "write_bit" -> C(op, 289, 5, IntV(1), 0, 1, FALSE)
      [] op = "read_register" -> C(op, 289, 3, NoneV, 1, 1, FALSE)
      [] op = "write_register" -> C(op, 289, 16, FloatV(770, 1), 1, 1, FALSE)
      [] op = "read_long" -> C(op, 289, 3, NoneV, 0, 2, TRUE)
      [] op = "write_long" -> C(op, 289, 16, WideV(1, 2), 0, 2, FALSE)
      [] op = "read_float" -> C(op, 289, 3, NoneV, 0, 2, FALSE)
      [] op = "write_float" -> C(op, 289, 16, FloatV(10, 1), 0, 2, FALSE)
      [] op = "read_string" -> C(op, 289, 3, NoneV, 0, 2, FALSE)
      [] op = "write_string" -> C(op, 289, 16, StrV(<<65, 66>>), 0, 2, FALSE)
      [] op = "read_registers" -> C(op, 289, 3, NoneV, 0, 2, FALSE)
      [] op = "write_registers" -> C(op, 289, 16, ListV(<<1, 65535>>), 0, 2, FALSE)

\* the methods that take each argument
TakesFunctioncode ==
    ReadOps \cup {"write_bit", "write_register"}
TakesDecimals == {"read_register", "write_register"}
TakesSigned == {"read_register", "write_register", "read_long", "write_long"}
TakesRegisters ==
    {"read_float", "write_float", "read_string", "write_string", "read_registers"}
TakesValue == WriteOps

DecimalsSamples == {-1, 0, 1, 10, 11}
RegistersSamples == {0, 1, 2, 3, 4, 128, 256}

ValueSamples(op) ==
    CASE op = "write_bit" -> {IntV(0), IntV(1), IntV(2), StrV(<<49>>)}
      [] op = "write_register" ->
           {IntV(0), IntV(770), IntV(-1), IntV(65535), IntV(65536),
            FloatV(775, 1), StrV(<<49>>), NoneV}
      [] op = "write_long" ->
           {IntV(0), IntV(-1), WideV(65535, 65535), WideV(65536, 0),
            WideV(-32768, 0), WideV(-32769, 65535), FloatV(10, 1)}
      [] op = "write_float" -> {IntV(3), FloatV(-25, 1), StrV(<<49>>)}
      [] op = "write_string" ->
           {StrV(<<65>>), StrV(<<65, 66, 67, 68>>), StrV(<<65, 66, 67, 68, 69>>),
            StrV(<<>>), IntV(5)}
      [] op = "write_registers" ->
           {ListV(<<7>>), ListV(<<>>), ListV(<<1, 65536>>), ListV(<<-1>>),
            IntV(5)}

\* each base call and its variations in one argument (and in signed)
CallsOf(op) ==
    LET b == BaseCall(op)
        signs == IF op \in TakesSigned THEN BOOLEAN ELSE {FALSE}
    IN  {[b EXCEPT !.signed = sg] : sg \in signs}
        \cup {[b EXCEPT !.registeraddress = ra] : ra \in RegisteraddressSamples}
        \cup (IF op \in TakesFunctioncode
              THEN {[b EXCEPT !.functioncode = fc] : fc \in FunctioncodeSamples}
              ELSE {})
        \cup (IF op \in TakesDecimals
              THEN {[b EXCEPT !.numberOfDecimals = nd] : nd \in DecimalsSamples}
              ELSE {})
        \cup (IF op \in TakesRegisters
              THEN {[b EXCEPT !.numberOfRegisters = nr] : nr \in RegistersSamples}
              ELSE {})
        \cup (IF op \in TakesValue
              THEN {[b EXCEPT !.value = v, !.signed = sg] :
                       v \in ValueSamples(op), sg \in signs}
              ELSE {})

\* the write of the largest number of registers that the check of the
\* arguments lets pass
LargestWrite == [BaseCall("write_string") EXCEPT !.numberOfRegisters = 255]

WideCalls == UNION {CallsOf(op) : op \in PublicOps} \cup {LargestWrite}

\* the calls of the specification of the sessions sharing a port
FewCalls ==
    {BaseCall("read_register"), BaseCall("write_register"),
     [BaseCall("read_register") EXCEPT !.registeraddress = -1]}

\* the sessions of that specification differ in address and in mode
ModeOf(s) == IF s % 2 = 1 THEN MODE_RTU ELSE MODE_ASCII

-----------------------------------------------------------------------------
(* Specifications *)

\* Spec: up to MaxInstruments instruments on one port, MaxCalls calls, one
\* after the other (the caller serializes), drawn from FewCalls
Next ==
    \/ \E s \in InstIds, port \in Ports : Construct(s, port, s, ModeOf(s))
    \/ \E s \in InstIds, b \in BOOLEAN : SetClosePortAfterEachCall(s, b)
    \/ \E s \in InstIds, c \in FewCalls : Call(s, c, MaxCalls)
    \/ \E s \in InstIds : Open(s)
    \/ \E s \in InstIds : Write(s)
    \/ \E s \in InstIds : WriteFail(s)
    \/ \E s \in InstIds : ReceiveOneOfFew(s)
    \/ \E s \in InstIds : ReadFail(s)
    \/ \E s \in InstIds : Finish(s)
    \/ \E s \in InstIds : Return(s)
    \/ \E d \in Gaps : Elapse(d)

Spec == Init /\ [][Next]_vars

\* SpecCall: one instrument of any address and mode, MaxWideCalls calls drawn
\* from WideCalls
MaxWideCalls == 1

NextCall ==
    \/ \E port \in Ports, a \in Addresses, m \in Modes : Construct(1, port, a, m)
    \/ \E b \in BOOLEAN : SetClosePortAfterEachCall(1, b)
    \/ \E b \in BOOLEAN : SetPrecalculateReadSize(1, b)
    \/ \E c \in WideCalls : Call(1, c, MaxWideCalls)
    \/ Open(1)
    \/ Write(1)
    \/ WriteFail(1)
    \/ Receive(1)
    \/ ReadFail(1)
    \/ Finish(1)
    \/ Return(1)

SpecCall == Init /\ [][NextCall]_vars

-----------------------------------------------------------------------------
(* SpecFrame: the frame codec alone.  A frame is made by _embedPayload, is  *)
(* left whole or damaged on the bus, and is given to _extractPayload with   *)
(* the address and the function code of the request.                        *)

FrameAddresses == {0, 1, 10, 247, 248}
FrameFunctioncodes == {0, 3, 127, 128}
FrameBytes == {0, 171, 255}

RECURSIVE SeqsUpTo(_, _)
SeqsUpTo(S, n) ==
    IF n = 0 THEN {<<>>}
    ELSE LET shorter == SeqsUpTo(S, n - 1)
         IN  shorter \cup {Append(q, b) : q \in shorter, b \in S}

\* the payload of a request for one register at address 0
ReferencePayload == <<0, 0, 0, 1>>

FramePayloads == SeqsUpTo(FrameBytes, MaxPayloadLen) \cup {ReferencePayload}

\* the byte b with bit k inverted
FlipBit(b, k) ==
    IF (b \div Pow(2, k)) % 2 = 1 THEN b - Pow(2, k) ELSE b + Pow(2, k)

NoTamper == <<"none", 0, 0>>

Embed(subordinateaddress, mode, functioncode, payloaddata) ==
    /\ codec = <<>>
    /\ LET request == _embedPayload(subordinateaddress, mode, functioncode,
                                    payloaddata)
       IN  codec' = [subordinateaddress |-> subordinateaddress, mode |-> mode,
                     functioncode |-> functioncode,
                     payloaddata |-> payloaddata,
                     request |-> request,
                     response |-> IF request.ok THEN request.val ELSE <<>>,
                     tamper |-> NoTamper,
                     stage |-> IF request.ok THEN "embedded" ELSE "refused",
                     extracted |-> NoResult]
    /\ UNCHANGED sessionVars

Embedded == codec # <<>> /\ codec.stage = "embedded" /\ codec.tamper = NoTamper

\* bit k of the byte at position i of the frame is inverted on the bus
Flip(i, k) ==
    /\ Embedded
    /\ i \in 1..Len(codec.response)
    /\ codec' = [codec EXCEPT
                   !.response = WithByte(@, i, FlipBit(@[i], k)),
                   !.tamper = <<"flip", i, k>>]
    /\ UNCHANGED sessionVars

\* a frame with a good checksum from the subordinate of another address
Readdress(address) ==
    /\ Embedded
    /\ address # codec.subordinateaddress
    /\ codec' = [codec EXCEPT
                   !.response = FrameOf(codec.mode,
                       <<address, codec.functioncode>> \o codec.payloaddata),
                   !.tamper = <<"address", address, 0>>]
    /\ UNCHANGED sessionVars

\* a frame with a good checksum and another function code
Refunction(functioncode) ==
    /\ Embedded
    /\ functioncode # codec.functioncode
    /\ codec' = [codec EXCEPT
                   !.response = FrameOf(codec.mode,
                       <<codec.subordinateaddress, functioncode>>
                           \o codec.payloaddata),
                   !.tamper = <<"functioncode", functioncode, 0>>]
    /\ UNCHANGED sessionVars

\* a frame with a good checksum and good ASCII framing that is too short: it
\* has the first n bytes of address and function code, and no payload
Shorten(n) ==
    /\ Embedded
    /\ codec' = [codec EXCEPT
                   !.response = FrameOf(codec.mode,
                       SubSeq(<<codec.subordinateaddress, codec.functioncode>>,
                              1, n)),
                   !.tamper = <<"shorten", n, 0>>]
    /\ UNCHANGED sessionVars


\* the faults a received frame can have besides its address and function code
FrameFaults == {"short", "header", "footer", "odd", "checksum"}

\* the frame of firstPart with the faults: a checksum with one bit inverted,
\* ';' for the header, CR CR for the footer, one hex character too many, and
\* a frame cut below the minimum length
Forged(mode, firstPart, faults) ==
    LET good == IF mode = MODE_ASCII THEN _calculateLrcString(firstPart)
                ELSE _calculateCrcString(firstPart)
        checksum == IF "checksum" \in faults
                    THEN WithByte(good, Len(good), FlipBit(good[Len(good)], 0))
                    ELSE good
        rtulike == firstPart \o checksum
        whole == IF mode = MODE_ASCII
                 THEN (IF "header" \in faults THEN <<59>> ELSE _ASCII_HEADER)
                      \o _hexencode(rtulike)
                      \o (IF "odd" \in faults THEN <<48>> ELSE <<>>)
                      \o (IF "footer" \in faults THEN <<13, 13>> ELSE _ASCII_FOOTER)
                 ELSE rtulike
    IN  IF "short" \in faults
        THEN SubSeq(whole, 1, IF mode = MODE_ASCII THEN 8 ELSE 3)
        ELSE whole

\* a frame that has a fault of its framing or its checksum, or several faults
\* at once: it comes from the address of the request + da, with the function
\* code of the request + dfc
Forge(da, dfc, faults) ==
    /\ Embedded
    /\ faults # {} \/ (da # 0 /\ dfc # 0)
    /\ codec.mode = MODE_RTU => faults \subseteq {"short", "checksum"}
    /\ codec' = [codec EXCEPT
                   !.response = Forged(codec.mode,
                       <<codec.subordinateaddress + da,
                         codec.functioncode + dfc>> \o codec.payloaddata,
                       faults),
                   !.tamper = <<"forge", codec.subordinateaddress + da,
                                codec.functioncode + dfc, faults>>]
    /\ UNCHANGED sessionVars


Extract ==
    /\ codec # <<>> /\ codec.stage = "embedded"
    /\ codec' = [codec EXCEPT
                   !.stage = "extracted",
                   !.extracted =
                       LET r == _extractPayload(codec.response,
                                    codec.subordinateaddress, codec.mode,
                                    codec.functioncode)
                       IN  IF r.ok THEN Returned(r) ELSE Raised(r)]
    /\ UNCHANGED sessionVars

NextFrame ==
    \/ \E a \in FrameAddresses, m \in Modes, fc \in FrameFunctioncodes,
          p \in FramePayloads : Embed(a, m, fc, p)
    \/ \E i \in 1..(2 * MaxPayloadLen + 9), k \in 0..7 : Flip(i, k)
    \/ \E a \in FrameAddresses : Readdress(a)
    \/ \E fc \in {1, 3, 127, 131, 255} : Refunction(fc)
    \/ \E n \in {0, 1} : Shorten(n)
    \/ \E da \in {0, 1}, dfc \in {0, 1, 128}, faults \in SUBSET FrameFaults :
          Forge(da, dfc, faults)
    \/ Extract

SpecFrame == Init /\ [][NextFrame]_vars

-----------------------------------------------------------------------------
(* Properties of the frame codec (SpecFrame) *)

Extracted == codec # <<>> /\ codec.stage = "extracted"

\* C3: frame symmetry.  For every address in 0..247, mode, function code in
\* 1..127 and payload, the empty one included, _embedPayload makes a frame and
\* _extractPayload, given that frame with the same address, mode and function
\* code, returns exactly the payload.
FrameSymmetry ==
    (/\ codec # <<>>
     /\ codec.subordinateaddress \in 0..247
     /\ codec.functioncode \in 1..127)
    => /\ codec.request.ok
       /\ (codec.stage = "extracted" /\ codec.tamper = NoTamper)
          => /\ codec.extracted.status = "returned"
             /\ codec.extracted.val = codec.payloaddata

\* an empty payload has gone through both directions in ASCII mode
FrameSymmetryWitness ==
    /\ Extracted
    /\ codec.tamper = NoTamper
    /\ codec.mode = MODE_ASCII
    /\ codec.payloaddata = <<>>
    /\ codec.subordinateaddress = 247
    /\ codec.extracted.status = "returned"

\* the positions of a frame that hold its checksum: the last two bytes in RTU
\* mode, the two hex characters before the footer in ASCII mode
ChecksumRegion(mode, frame) ==
    IF mode = MODE_ASCII
    THEN {Len(frame) - 3, Len(frame) - 2}
    ELSE {Len(frame) - 1, Len(frame)}

\* one bit outside the checksum was inverted and the frame was extracted
FlippedOutsideChecksum ==
    /\ Extracted
    /\ codec.tamper[1] = "flip"
    /\ codec.tamper[2] \notin ChecksumRegion(codec.mode, codec.request.val)

\* the inverted bit turns an upper-case hex letter of an ASCII frame into the
\* same letter in lower case
FlipsLetterCase ==
    /\ codec.mode = MODE_ASCII
    /\ codec.tamper[3] = 5
    /\ codec.request.val[codec.tamper[2]] \in 65..70

\* C4 as stated: every single-bit flip outside the checksum makes
\* _extractPayload raise.
EveryFlipRaises ==
    FlippedOutsideChecksum => codec.extracted.status = "raised"

\* C4: checksum sensitivity.  A single-bit flip outside the checksum makes
\* _extractPayload raise in RTU mode always, and in ASCII mode unless the bit
\* is bit 5 of a hex letter A-F: that flip gives the lower-case letter, which
\* decodes to the same byte, and the frame is accepted with the payload that
\* was embedded.
FlipRaisesUnlessLetterCase ==
    FlippedOutsideChecksum =>
        IF FlipsLetterCase
        THEN /\ codec.extracted.status = "returned"
             /\ codec.extracted.val = codec.payloaddata
        ELSE codec.extracted.status = "raised"

\* a frame with a lower-case letter made by a flip in the payload's hex text
\* has been accepted
LetterCaseFlipAccepted ==
    /\ FlippedOutsideChecksum
    /\ FlipsLetterCase
    /\ codec.tamper[2] > 5
    /\ codec.extracted.status = "returned"

DEVICE_EXCEPTION == "The subordinate is indicating an error"
WRONG_FUNCTIONCODE == "Wrong functioncode"

\* the frame given to _extractPayload has a good checksum, the address of the
\* request and the function code of the request with bit 7 set
AnswersWithBit7 ==
    codec.tamper = <<"functioncode", codec.functioncode + 128, 0>>

\* C6: a frame with a good checksum and the right address whose function code
\* is the requested one with bit 7 set makes _extractPayload raise with the
\* device-exception message; every other function code that differs raises
\* with the wrong-function-code message, and no other frame, good or bad,
\* gets the device-exception message.  (Both are ValueError: the message is
\* what tells them apart.)
DeviceExceptionDistinct ==
    Extracted =>
       /\ AnswersWithBit7 <=>
             (codec.extracted.status = "raised"
              /\ codec.extracted.msg = DEVICE_EXCEPTION)
       /\ (codec.tamper[1] = "functioncode" /\ ~AnswersWithBit7) <=>
             (codec.extracted.status = "raised"
              /\ codec.extracted.msg = WRONG_FUNCTIONCODE)

\* function code 3 was answered with 131 and the extraction raised
DeviceExceptionWitness ==
    /\ Extracted
    /\ codec.functioncode = 3
    /\ codec.tamper = <<"functioncode", 131, 0>>
    /\ codec.extracted = Raised(Err("ValueError", DEVICE_EXCEPTION))

-----------------------------------------------------------------------------
(* Properties of one call (SpecCall) *)

Calling(s) == pc[s] # "idle"
Done(s) == pc[s] = "done"
NoTransport(s) == io[s] = NoIo
BigEndian16(n) == <<n \div 256, n % 256>>

\* the bytes address, function code, payload, checksum of a frame, or <<>>
\* when the frame is too short or its ASCII framing or hex text is not right
RtuLike(mode, frame) ==
    IF mode = MODE_ASCII
    THEN IF /\ Len(frame) >= 9
            /\ frame[1] = 58
            /\ LastN(frame, 2) = <<13, 10>>
            /\ Len(frame) % 2 = 1
            /\ \A i \in 2..(Len(frame) - 2) :
                  frame[i] \in (48..57) \cup (65..70) \cup (97..102)
         THEN _hexdecode(SubSeq(frame, 2, Len(frame) - 2)).val
         ELSE <<>>
    ELSE IF Len(frame) >= 4 THEN frame ELSE <<>>

ChecksumLength(mode) == IF mode = MODE_ASCII THEN 1 ELSE 2

\* the frame is well-formed and ends with the checksum of what precedes it
GoodChecksum(mode, frame) ==
    LET r == RtuLike(mode, frame)
        body == SubSeq(r, 1, Len(r) - ChecksumLength(mode))
    IN  /\ r # <<>>
        /\ LastN(r, ChecksumLength(mode)) =
              (IF mode = MODE_ASCII THEN _calculateLrcString(body)
               ELSE _calculateCrcString(body))

\* the payload bytes of a well-formed frame
PayloadOf(mode, frame) ==
    LET r == RtuLike(mode, frame)
    IN  SubSeq(r, 3, Len(r) - ChecksumLength(mode))

\* the function code in the request that the call of s has made
SentFunctioncode(s) == RtuLike(inst[s].mode, wire[s].message)[2]

\* the call of s has read a frame (the read returned at least one byte)
GotFrame(s) == Done(s) /\ io[s].reads = 1 /\ wire[s].answer # <<>>

\* the arguments of call c on instrument self fail validation, as C1 lists it
BadValue(c) ==
    CASE c.op = "write_bit" ->
           c.value.ty # "int" \/ Wide(c.value) \notin {<<0, 0>>, <<0, 1>>}
      [] c.op = "write_register" ->
           \/ c.value.ty \notin {"int", "float"}
           \/ /\ c.numberOfDecimals \in 0..10
              /\ ScaledInteger(c.value, c.numberOfDecimals) \notin
                    (IF c.signed THEN -32768..32767 ELSE 0..65535)
      [] c.op = "write_long" ->
           \/ c.value.ty # "int"
           \/ Wide(c.value)[1] \notin
                 (IF c.signed THEN -32768..32767 ELSE 0..65535)
      [] c.op = "write_float" -> c.value.ty \notin {"int", "float"}
      [] c.op = "write_string" ->
           \/ c.value.ty # "str"
           \/ Len(c.value.items) \notin 1..(2 * c.numberOfRegisters)
      [] c.op = "write_registers" ->
           \/ c.value.ty # "list"
           \/ c.value.items = <<>>
           \/ \E i \in 1..Len(c.value.items) : c.value.items[i] \notin 0..65535
      [] OTHER -> FALSE

BadRegisterCount(c) ==
    \/ c.op \in {"read_float", "write_float"} /\ c.numberOfRegisters \notin {2, 4}
    \/ /\ c.op \in {"read_string", "write_string", "read_registers"}
       /\ c.numberOfRegisters \notin 1..255

BadArguments(self, c) ==
    \/ self.address \notin 0..247
    \/ c.registeraddress \notin 0..65535
    \/ c.op \in TakesDecimals /\ c.numberOfDecimals \notin 0..10
    \/ BadRegisterCount(c)
    \/ BadValue(c)

\* C1: a call whose arguments fail validation (type, numberOfDecimals 0..10,
\* subordinate address 0..247, register address 0..65535, value range,
\* register count) raises and has not opened the port, written or read.
ArgumentErrorBeforeTransport ==
    \A s \in InstIds :
        (Calling(s) /\ BadArguments(inst[s], call[s]))
        => /\ Done(s)
           /\ result[s].status = "raised"
           /\ NoTransport(s)

\* the function codes each public method accepts
FunctioncodesOf(op) ==
    CASE op = "read_bit" -> {1, 2}
      [] op = "write_bit" -> {5, 15}
      [] op \in {"read_register", "read_long", "read_float", "read_string",
                 "read_registers"} -> {3, 4}
      [] op = "write_register" -> {6, 16}
      [] OTHER -> {16}

\* C2: a call with a function code that is not one of its method's is rejected
\* before any I/O, whether the code is in 1..127 or not; the methods without a
\* functioncode argument send function code 16 only.
OnlyOwnFunctioncodes ==
    \A s \in InstIds :
        Calling(s) =>
            IF /\ call[s].op \in TakesFunctioncode
               /\ call[s].functioncode \notin FunctioncodesOf(call[s].op)
            THEN /\ Done(s)
                 /\ result[s].status = "raised"
                 /\ NoTransport(s)
            ELSE io[s].writes > 0 =>
                     SentFunctioncode(s) \in FunctioncodesOf(call[s].op)

\* read_register called with function code 6, a code of write_register, has
\* been refused without I/O
ForeignFunctioncodeRefused ==
    \E s \in InstIds :
        /\ Done(s)
        /\ call[s].op = "read_register" /\ call[s].functioncode = 6
        /\ BadArguments(inst[s], call[s]) = FALSE
        /\ result[s].status = "raised"
        /\ NoTransport(s)

\* the frame read by s has a good checksum and another address or another
\* function code than the request
MismatchedFrame(s) ==
    /\ GotFrame(s)
    /\ GoodChecksum(inst[s].mode, wire[s].answer)
    /\ LET r == RtuLike(inst[s].mode, wire[s].answer)
       IN  r[1] # inst[s].address \/ r[2] # SentFunctioncode(s)

\* C5: a response with a good checksum and the wrong address or the wrong
\* function code makes the operation raise: no value, no completed write.
MismatchRaises ==
    \A s \in InstIds : MismatchedFrame(s) => result[s].status = "raised"

\* a write has been answered from another address with the echo it expects,
\* and has raised
MismatchedEchoRaised ==
    \E s \in InstIds :
        /\ MismatchedFrame(s)
        /\ call[s].op = "write_register"
        /\ RtuLike(inst[s].mode, wire[s].answer)[1] # inst[s].address
        /\ RtuLike(inst[s].mode, wire[s].answer)[2] = SentFunctioncode(s)
        /\ PayloadOf(inst[s].mode, wire[s].answer)
              = SubSeq(PayloadOf(inst[s].mode, wire[s].message), 1, 4)
        /\ result[s].status = "raised"

\* the number of bits or registers a write sends
NumberSent(c) ==
    CASE c.op \in {"write_bit", "write_register"} -> 1
      [] c.op = "write_long" -> 2
      [] c.op = "write_registers" -> Len(c.value.items)
      [] OTHER -> c.numberOfRegisters

\* the response payload echoes what the write of s has sent
EchoMatches(s) ==
    LET echo == PayloadOf(inst[s].mode, wire[s].answer)
        sent == PayloadOf(inst[s].mode, wire[s].message)
        fc == SentFunctioncode(s)
    IN  /\ Len(echo) >= 4
        /\ SubSeq(echo, 1, 2) = BigEndian16(call[s].registeraddress)
        /\ fc \in {5, 6} => SubSeq(echo, 3, 4) = SubSeq(sent, 3, 4)
        /\ fc \in {15, 16} => SubSeq(echo, 3, 4) = BigEndian16(NumberSent(call[s]))

\* C7: a write returns, with no value, only if the response echoes the
\* register address and, for function codes 5 and 6, the two data bytes sent
\* or, for 15 and 16, the count sent; any mismatch raises.
WriteEchoChecked ==
    \A s \in InstIds :
        (Done(s) /\ call[s].op \in WriteOps)
        => /\ result[s].status \in {"returned", "raised"}
           /\ result[s].status = "returned"
              => /\ GotFrame(s)
                 /\ EchoMatches(s)
                 /\ result[s].val = <<>>

\* a write with function code 6 has read an echo with other data and raised
WrongEchoRaised ==
    \E s \in InstIds :
        /\ GotFrame(s)
        /\ call[s].op = "write_register" /\ call[s].functioncode = 6
        /\ GoodChecksum(inst[s].mode, wire[s].answer)
        /\ ~MismatchedFrame(s)
        /\ LET echo == PayloadOf(inst[s].mode, wire[s].answer)
               sent == PayloadOf(inst[s].mode, wire[s].message)
           IN  /\ Len(echo) = 4
               /\ SubSeq(echo, 1, 2) = SubSeq(sent, 1, 2)
               /\ SubSeq(echo, 3, 4) # SubSeq(sent, 3, 4)
        /\ result[s].status = "raised"

\* the number of registers a read asks for
NumberAsked(c) ==
    CASE c.op \in {"read_bit", "read_register"} -> 1
      [] c.op = "read_long" -> 2
      [] OTHER -> c.numberOfRegisters

\* the frame read by s fails a validation step: length, ASCII header, footer
\* or even length, checksum, address, function code, byte count, echo, data
\* length
FailsValidation(s) ==
    LET mode == inst[s].mode
        r == RtuLike(mode, wire[s].answer)
        payload == PayloadOf(mode, wire[s].answer)
        fc == SentFunctioncode(s)
    IN  \/ r = <<>>
        \/ ~GoodChecksum(mode, wire[s].answer)
        \/ r[1] # inst[s].address
        \/ r[2] # fc
        \/ /\ fc \in {1, 2, 3, 4}
           /\ \/ payload = <<>>
              \/ payload[1] # Len(payload) - 1
              \/ fc \in {1, 2} /\ Len(payload) - 1 # 1
              \/ fc \in {3, 4} /\ Len(payload) - 1 # 2 * NumberAsked(call[s])
        \/ fc \in {5, 6, 15, 16} /\ ~EchoMatches(s)

\* C8: a received frame that fails a validation step ends the operation in an
\* error; nothing of the frame, payload or decoded value, reaches the caller.
InvalidFrameDiscarded ==
    \A s \in InstIds :
        (GotFrame(s) /\ FailsValidation(s))
        => /\ result[s].status = "raised"
           /\ result[s].val = <<>>

\* a register read has got a frame, good up to its byte count, and has raised
WrongByteCountRaised ==
    \E s \in InstIds :
        /\ GotFrame(s)
        /\ call[s].op = "read_register"
        /\ GoodChecksum(inst[s].mode, wire[s].answer)
        /\ ~MismatchedFrame(s)
        /\ LET payload == PayloadOf(inst[s].mode, wire[s].answer)
           IN  Len(payload) = 3 /\ payload[1] # 2
        /\ result[s].status = "raised"
        /\ result[s].val = <<>>

-----------------------------------------------------------------------------
(* Properties of the sessions on one port (Spec) *)

NO_ANSWER == "No communication with the instrument (no answer)"
PortOf(s) == conns[inst[s].serial].port

\* C9: no retry.  A call of a public method writes to the transport at most
\* once and reads from it at most once, whatever its outcome; a call that has
\* failed has still made no more than one write and one read.
NoRetry ==
    \A s \in InstIds :
        /\ io[s].writes <= 1
        /\ io[s].reads <= 1
        /\ io[s].reads <= io[s].writes

\* the second call on the port has read a frame with a bad checksum and has
\* raised after one write and one read
FailedAfterOneExchange ==
    \E s \in InstIds :
        /\ GotFrame(s)
        /\ ncalls = 2
        /\ ~GoodChecksum(inst[s].mode, wire[s].answer)
        /\ result[s].status = "raised"
        /\ io[s].writes = 1 /\ io[s].reads = 1

\* the read of s has returned no byte and the call has not raised yet
TimedOut(s) == pc[s] = "answer" /\ wire[s].answer = <<>>

TimeoutCleanedUp ==
    \A s \in InstIds :
        TimedOut(s)
        => /\ LATEST_READ_TIMES[PortOf(s)] = now
           /\ inst[s].close_port_after_each_call
              => ~conns[inst[s].serial].is_open

TimeoutRaises ==
    \A s \in InstIds :
        (TimedOut(s) /\ pc'[s] # pc[s])
        => /\ pc'[s] = "done"
           /\ result'[s] = Raised(Err("IOError", NO_ANSWER))
           /\ UNCHANGED <<LATEST_READ_TIMES, conns>>

\* C10: when the read returns no byte, the call raises the no-answer error;
\* by then _LATEST_READ_TIMES of the port holds the time of that read and,
\* with close_port_after_each_call set, the port is closed.
TimeoutRaisesAfterCleanup == []TimeoutCleanedUp /\ [][TimeoutRaises]_vars

\* a call with close_port_after_each_call set has raised the no-answer error
\* with the port closed and the read time recorded
TimeoutRaised ==
    \E s \in InstIds :
        /\ Done(s)
        /\ result[s] = Raised(Err("IOError", NO_ANSWER))
        /\ io[s].reads = 1
        /\ inst[s].close_port_after_each_call
        /\ ~conns[inst[s].serial].is_open
        /\ LATEST_READ_TIMES[PortOf(s)] = now

\* instrument s makes its transport write in this step
Writes(s) == pc[s] = "write" /\ pc'[s] # "write"

SilentBeforeWrite ==
    \A s \in InstIds :
        Writes(s) =>
            LET latest == LATEST_READ_TIMES[PortOf(s)]
                period == _calculate_minimum_silent_period(
                              conns[inst[s].serial].baudrate)
            IN  IF latest = -1
                THEN now' = now
                ELSE now' >= latest + period

\* C11: inter-frame silence.  In every sequence of serialized calls by the
\* sessions, a write on a port is made no earlier than the time of the last
\* completed read on that port plus the minimum silent period of its baudrate,
\* and a write on a port that was never read is made without delay.
InterFrameSilence == [][SilentBeforeWrite]_vars

\* session 2 has written on the port of session 1 exactly one silent period
\* after the last read there: the write was delayed
WriteWasDelayed ==
    /\ inst[1].constructed /\ inst[2].constructed
    /\ inst[1].serial = inst[2].serial
    /\ pc[2] = "read"
    /\ ncalls = 2
    /\ LATEST_READ_TIMES[PortOf(2)] # -1
    /\ now = LATEST_READ_TIMES[PortOf(2)]
                + _calculate_minimum_silent_period(BAUDRATE)

\* the registry and the connections: no two connections of one port, every
\* connection registered under its port, every session holding the connection
\* that is registered for its port
RegistryInvariant ==
    /\ \A i, j \in 1..Len(conns) : conns[i].port = conns[j].port => i = j
    /\ \A i \in 1..Len(conns) : SERIALPORTS[conns[i].port] = i
    /\ \A p \in Ports : SERIALPORTS[p] \in 0..Len(conns)
    /\ \A s \in InstIds :
          inst[s].constructed =>
              /\ inst[s].serial \in 1..Len(conns)
              /\ SERIALPORTS[PortOf(s)] = inst[s].serial

\* a construction for port p takes the connection registered for p, and makes
\* one only when none is registered
ConstructionShares ==
    \A s \in InstIds, p \in Ports :
        (\E a \in InstIds \cup Addresses, m \in Modes : Construct(s, p, a, m))
        => /\ conns'[inst'[s].serial].port = p
           /\ SERIALPORTS'[p] = inst'[s].serial
           /\ IF SERIALPORTS[p] # 0
              THEN Len(conns') = Len(conns) /\ inst'[s].serial = SERIALPORTS[p]
              ELSE Len(conns') = Len(conns) + 1

\* C12: port registry.  After any sequence of constructions the registry has
\* at most one connection per port, all sessions made for one port hold that
\* one connection, whatever their addresses and modes, and a construction for
\* a registered port makes no second connection.
PortRegistryInvariant == []RegistryInvariant /\ [][ConstructionShares]_vars

\* two sessions of different address and mode have been made for one port and
\* hold the only connection
TwoSessionsOneConnection ==
    /\ inst[1].constructed /\ inst[2].constructed
    /\ inst[1].address # inst[2].address
    /\ inst[1].mode # inst[2].mode
    /\ inst[1].serial = inst[2].serial
    /\ Len(conns) = 1
    /\ PortOf(1) = "COM4"
    /\ SERIALPORTS["COM5"] = 0

\* session s has written its request and has not read yet: its request is in
\* flight on the bus of its port
InFlight(s) == inst[s].constructed /\ pc[s] = "read"

\* the sessions with a request in flight on connection i
InFlightOn(i) == {s \in InstIds : InFlight(s) /\ inst[s].serial = i}

-----------------------------------------------------------------------------
(* SpecValue: the value codecs and the checksums alone.  A value is encoded *)
(* with a configuration (numberOfDecimals, signed, numberOfRegisters) and    *)
(* the bytes are decoded with the same configuration; a checksum is          *)
(* calculated and calculated again.                                          *)

MaxTextLen == 5
MaxChecksumLen == 3

RegisterValues ==
    {IntV(0), IntV(770), IntV(-1), IntV(32767), IntV(32768), IntV(-32768),
     IntV(-32769), IntV(65535), IntV(65536),
     FloatV(770, 1), FloatV(777, 2), FloatV(-777, 2), FloatV(775, 2),
     FloatV(29, 2), FloatV(-29, 2), FloatV(57, 2), FloatV(5, 6),
     FloatV(655359, 1), FloatV(-9, 1), StrV(<<49>>), NoneV}
ValueDecimals == {-1, 0, 1, 2, 10}
LongValues ==
    {IntV(0), IntV(770), IntV(-1), WideV(1, 2), WideV(32767, 65535),
     WideV(32768, 0), WideV(65535, 65535), WideV(65536, 0), WideV(-32768, 0),
     WideV(-32769, 65535), FloatV(10, 1)}
ListValues ==
    {ListV(<<7>>), ListV(<<0, 65535>>), ListV(<<770, 1, 256>>), ListV(<<>>),
     ListV(<<1, 65536>>), ListV(<<-1>>), IntV(5)}
TextValues == {StrV(t) : t \in SeqsUpTo({65, 32}, MaxTextLen)} \cup {IntV(5)}
TextRegisters == {0, 1, 2}
ReferenceRequest == <<1, 3, 0, 0, 0, 1>>
ChecksumInputs == SeqsUpTo({1, 171, 255}, MaxChecksumLen) \cup {ReferenceRequest}

\* the record of one use of a codec
Encoding(kind, value, numberOfDecimals, signed, numberOfRegisters, r) ==
    [kind |-> kind, value |-> value, numberOfDecimals |-> numberOfDecimals,
     signed |-> signed, numberOfRegisters |-> numberOfRegisters,
     encoded |-> r,
     stage |-> IF r.ok THEN "encoded" ELSE "refused",
     decoded |-> NoResult]

EncodeRegister(value, numberOfDecimals, signed) ==
    /\ codec = <<>>
    /\ codec' = Encoding("register", value, numberOfDecimals, signed, 1,
                    _numToTwoByteString(value, numberOfDecimals, FALSE, signed))
    /\ UNCHANGED sessionVars

EncodeLong(value, signed) ==
    /\ codec = <<>>
    /\ codec' = Encoding("long", value, 0, signed, 2,
                    _longToBytestring(value, signed, 2))
    /\ UNCHANGED sessionVars

EncodeRegisters(valuelist) ==
    /\ codec = <<>>
    /\ codec' = Encoding("registers", valuelist, 0, FALSE, Len(valuelist.items),
                    _valuelistToBytestring(valuelist, Len(valuelist.items)))
    /\ UNCHANGED sessionVars

EncodeString(inputstring, numberOfRegisters) ==
    /\ codec = <<>>
    /\ codec' = Encoding("string", inputstring, 0, FALSE, numberOfRegisters,
                    _textstringToBytestring(inputstring, numberOfRegisters))
    /\ UNCHANGED sessionVars

\* the decoder of the codec, on the bytes and the configuration of the record
DecodeAs(k) ==
    CASE k.kind = "register" ->
           _twoByteStringToNum(k.encoded.val, k.numberOfDecimals, k.signed)
      [] k.kind = "long" ->
           _bytestringToLong(k.encoded.val, k.signed, k.numberOfRegisters)
      [] k.kind = "registers" ->
           _bytestringToValuelist(k.encoded.val, k.numberOfRegisters)
      [] k.kind = "string" ->
           _bytestringToTextstring(k.encoded.val, k.numberOfRegisters)

Decode ==
    /\ codec # <<>> /\ codec.stage = "encoded"
    /\ codec' = [codec EXCEPT
                   !.stage = "decoded",
                   !.decoded = LET r == DecodeAs(codec)
                               IN  IF r.ok THEN Returned(r) ELSE Raised(r)]
    /\ UNCHANGED sessionVars

\* the checksum of the mode: _calculateCrcString or _calculateLrcString
ChecksumAs(kind, inputstring) ==
    IF kind = "crc" THEN _calculateCrcString(inputstring)
    ELSE _calculateLrcString(inputstring)

Checksum(kind, inputstring) ==
    /\ codec = <<>>
    /\ codec' = [Encoding(kind, StrV(inputstring), 0, FALSE, 0,
                          Ok(ChecksumAs(kind, inputstring)))
                    EXCEPT !.stage = "summed"]
    /\ UNCHANGED sessionVars

ChecksumAgain ==
    /\ codec # <<>> /\ codec.stage = "summed"
    /\ codec' = [codec EXCEPT
                   !.stage = "summed again",
                   !.decoded = Returned(Ok(ChecksumAs(codec.kind,
                                                      codec.value.items)))]
    /\ UNCHANGED sessionVars

NextValue ==
    \/ \E v \in RegisterValues, nd \in ValueDecimals, sg \in BOOLEAN :
          EncodeRegister(v, nd, sg)
    \/ \E v \in LongValues, sg \in BOOLEAN : EncodeLong(v, sg)
    \/ \E v \in ListValues : EncodeRegisters(v)
    \/ \E v \in TextValues, nr \in TextRegisters : EncodeString(v, nr)
    \/ Decode
    \/ \E kind \in {"crc", "lrc"}, b \in ChecksumInputs : Checksum(kind, b)
    \/ ChecksumAgain

SpecValue == Init /\ [][NextValue]_vars

-----------------------------------------------------------------------------
(* Claims on the value codecs *)

\* the codec record is of the kind and at one of the stages
Coded(kind, stages) ==
    codec # <<>> /\ codec.kind = kind /\ codec.stage \in stages

\* value * 10^numberOfDecimals when the value is a multiple of
\* 10^-numberOfDecimals (beyond 65535 it is left as Times10 leaves it)
ExactScaled(value, numberOfDecimals) ==
    LET n == Normalized(value.num, value.dec)
    IN  Times10(n[1], numberOfDecimals - n[2])

RangeOf(signed) == IF signed THEN -32768..32767 ELSE 0..65535

\* the record encodes a value that C14 speaks of
Representable ==
    \/ /\ Coded("register", {"encoded", "refused", "decoded"})
       /\ codec.value.ty \in {"int", "float"}
       /\ codec.numberOfDecimals \in 0..10
       /\ Normalized(codec.value.num, codec.value.dec)[2] <= codec.numberOfDecimals
       /\ ExactScaled(codec.value, codec.numberOfDecimals) \in RangeOf(codec.signed)
    \/ /\ Coded("long", {"encoded", "refused", "decoded"})
       /\ codec.value.ty = "int"
       /\ Wide(codec.value)[1] \in RangeOf(codec.signed)
    \/ /\ Coded("registers", {"encoded", "refused", "decoded"})
       /\ codec.value.ty = "list"
       /\ codec.value.items # <<>>
       /\ \A i \in 1..Len(codec.value.items) : codec.value.items[i] \in 0..65535

\* the decoded value is the value that was encoded
DecodedIsValue ==
    /\ codec.decoded.status = "returned"
    /\ CASE codec.kind = "register" ->
              Normalized(codec.decoded.val[1], codec.decoded.val[2])
                  = Normalized(codec.value.num, codec.value.dec)
         [] codec.kind = "long" -> codec.decoded.val = Wide(codec.value)
         [] codec.kind = "registers" -> codec.decoded.val = codec.value.items
         [] OTHER -> FALSE

\* C14: round trip of the integer-representable types.  A scaled register
\* (numberOfDecimals in 0..10, signed or not, the value a multiple of
\* 10^-numberOfDecimals in the 16-bit range), a long in the 32-bit range
\* and a list of registers in 0..65535 are encoded, and decoding the bytes
\* with the same configuration returns the value; 77.0 with one decimal is
\* sent as the bytes of 770 and read back as 77.0.
ValueRoundTrip ==
    Representable =>
        /\ codec.stage # "refused"
        /\ codec.stage = "decoded" => DecodedIsValue
        /\ (/\ codec.kind = "register"
            /\ codec.value = FloatV(770, 1)
            /\ codec.numberOfDecimals = 1)
           => codec.encoded.val = <<3, 2>>

\* the integer nearest to value * 10^numberOfDecimals; at a tie, both
Nearest(value, numberOfDecimals) ==
    LET n == Normalized(value.num, value.dec)
        j == n[2] - numberOfDecimals
        D == Pow(10, j)
        a == IF n[1] < 0 THEN -n[1] ELSE n[1]
        sign == IF n[1] < 0 THEN -1 ELSE 1
    IN  IF j <= 0 THEN {Times10(n[1], -j)}
        ELSE IF 2 * (a % D) < D THEN {sign * (a \div D)}
        ELSE IF 2 * (a % D) > D THEN {sign * ((a \div D) + 1)}
        ELSE {sign * (a \div D), sign * ((a \div D) + 1)}

TwosComplement16(n) == BigEndian16(IF n < 0 THEN n + 65536 ELSE n)

\* C15: the register encoding rounds.  The two bytes of an encoded register
\* are the big-endian 16 bits of the integer nearest to
\* value * 10^numberOfDecimals: 7.77 with one decimal encodes 78.
EncodingRounds ==
    Coded("register", {"encoded", "decoded"}) =>
        \E n \in Nearest(codec.value, codec.numberOfDecimals) :
            codec.encoded.val = TwosComplement16(n)

-----------------------------------------------------------------------------
(* Claims on the values of the write methods *)

\* the value of call c is outside the range of its width and signedness
OutOfRange(c) ==
    CASE c.op = "write_register" ->
           /\ c.value.ty \in {"int", "float"}
           /\ c.numberOfDecimals \in 0..10
           /\ ScaledInteger(c.value, c.numberOfDecimals) \notin RangeOf(c.signed)
      [] c.op = "write_long" ->
           /\ c.value.ty = "int"
           /\ Wide(c.value)[1] \notin RangeOf(c.signed)
      [] c.op = "write_registers" ->
           /\ c.value.ty = "list"
           /\ \E i \in 1..Len(c.value.items) : c.value.items[i] \notin 0..65535
      [] OTHER -> FALSE

\* C16: range rejection by width and signedness.  write_register raises a
\* range error when the scaled integer is outside -32768..32767 (signed) or
\* 0..65535 (unsigned), write_long when the value is outside
\* -2147483648..2147483647 (signed) or 0..4294967295 (unsigned),
\* write_registers when an element is outside 0..65535; the error is raised
\* with no open, write or read on the port.
RangeRejected ==
    \A s \in InstIds :
        (Calling(s) /\ OutOfRange(call[s]))
        => /\ Done(s)
           /\ result[s].status = "raised"
           /\ result[s].exc = "ValueError"
           /\ NoTransport(s)

\* write_long of 4294967295 with signed=True: inside the limits that
\* write_long checks, refused by the signed format, nothing transmitted
SignedLongRefused ==
    /\ Done(1)
    /\ call[1].op = "write_long" /\ call[1].signed
    /\ call[1].value = WideV(65535, 65535)
    /\ result[1].exc = "ValueError"
    /\ NoTransport(1)

-----------------------------------------------------------------------------
(* Claims on the string codec *)

Spaces(n) == [i \in 1..n |-> 32]

\* a string of the record and its capacity 2 * numberOfRegisters
IsText == codec # <<>> /\ codec.kind = "string" /\ codec.value.ty = "str"
TextLength == Len(codec.value.items)
Capacity == 2 * codec.numberOfRegisters

EmptyStringRefused ==
    /\ IsText /\ codec.stage = "refused"
    /\ TextLength = 0 /\ Capacity = 2

-----------------------------------------------------------------------------
(* Claims on the register count of the float methods *)

\* the call of s is read_float or write_float with a register count that is
\* neither 2 nor 4
FloatCountUnsupported(s) ==
    /\ Calling(s)
    /\ call[s].op \in {"read_float", "write_float"}
    /\ call[s].numberOfRegisters \notin {2, 4}

\* C18: read_float and write_float support the register counts 2 and 4 only:
\* a call with another count, 3 in particular, is rejected as an argument
\* error and no request is transmitted.
FloatCountRejected ==
    \A s \in InstIds :
        FloatCountUnsupported(s)
        => /\ Done(s)
           /\ result[s].status = "raised"
           /\ result[s].exc \in {"ValueError", "TypeError"}
           /\ NoTransport(s)

-----------------------------------------------------------------------------
(* Claims on the checksums *)

\* a checksum of the kind has been calculated for the bytes
Summed(kind) == Coded(kind, {"summed", "summed again"})
ChecksumInput == codec.value.items

\* calculated again for the same bytes, the checksum is the same
SameAgain ==
    codec.stage = "summed again" => codec.decoded.val = codec.encoded.val

\* the statement of C19 as it is made: the CRC of 01 03 00 00 00 01 is
\* 0x0AC4, the bytes C4 0A
CrcVectorAsClaimed ==
    (Summed("crc") /\ ChecksumInput = ReferenceRequest)
    => codec.encoded.val = <<196, 10>>

\* C19: CRC reference vector.  The CRC-16 of the bytes 01 03 00 00 00 01
\* (polynomial 0xA001, register preloaded with 0xFFFF) is 0x0A84, returned
\* low byte first as the two bytes 84 0A; the function gives the same two
\* bytes whenever it is given the same input.
CrcReferenceVector ==
    Summed("crc")
    => /\ Len(codec.encoded.val) = 2
       /\ ChecksumInput = ReferenceRequest => codec.encoded.val = <<132, 10>>
       /\ SameAgain

\* the CRC of the reference request has been calculated twice
ReferenceCrcCalculated ==
    /\ Coded("crc", {"summed again"})
    /\ ChecksumInput = ReferenceRequest
    /\ codec.decoded.val = <<132, 10>>

\* n with its low eight bits inverted: n XOR 0xFF
XorFF(n) == n - (n % 256) + (255 - (n % 256))

\* C20: LRC.  For every byte sequence, sums above 255 included, the LRC is
\* one byte, ((sum XOR 0xFF) + 1) AND 0xFF, the two's complement of the sum
\* modulo 256: the sum plus the LRC is 0 modulo 256.
LrcIsTwosComplement ==
    Summed("lrc")
    => LET sum == SumBytes(ChecksumInput)
           lrc == codec.encoded.val
       IN  /\ Len(lrc) = 1
           /\ lrc[1] \in 0..255
           /\ lrc[1] = (XorFF(sum) + 1) % 256
           /\ (sum + lrc[1]) % 256 = 0

\* the LRC of three bytes with a sum above 255
LrcOfLargeSum ==
    /\ Summed("lrc")
    /\ Len(ChecksumInput) = 3
    /\ SumBytes(ChecksumInput) = 681
    /\ codec.encoded.val = <<87>>

-----------------------------------------------------------------------------
(* Claims on the layout of a frame (SpecFrame) *)

\* the characters 0-9 and A-F
UpperDigits == <<48, 49, 50, 51, 52, 53, 54, 55, 56, 57, 65, 66, 67, 68, 69, 70>>

\* two upper-case hex characters for every byte
RECURSIVE UpperHex(_)
UpperHex(bytes) ==
    IF bytes = <<>> THEN <<>>
    ELSE <<UpperDigits[(Head(bytes) \div 16) + 1], UpperDigits[(Head(bytes) % 16) + 1]>>
         \o UpperHex(Tail(bytes))

\* the 16-bit number n, low byte first
LowByteFirst(n) == <<n % 256, n \div 256>>

\* C21: wire layout.  In RTU mode the frame is the address byte, the function
\* code byte, the payload and the CRC-16, low byte first; in ASCII mode it is
\* ':', the upper-case hex of address, function code and payload, the hex of
\* the LRC, and CR LF; both checksums are calculated over address, function
\* code and payload only.  For subordinate 1, function code 3 and the payload
\* 00 00 00 01 the ASCII frame begins with ':0103', has the hex LRC of
\* 01 03 00 00 00 01 before the footer and ends with CR LF.
WireLayout ==
    (codec # <<>> /\ codec.request.ok)
    => LET covered == <<codec.subordinateaddress, codec.functioncode>>
                          \o codec.payloaddata
           frame == codec.request.val
           n == Len(frame)
       IN  /\ codec.mode = MODE_RTU
              => frame = covered \o LowByteFirst(CrcRegister(covered, 65535))
           /\ codec.mode = MODE_ASCII
              => frame = <<58>> \o UpperHex(covered)
                             \o UpperHex(_calculateLrcString(covered))
                             \o <<13, 10>>
           /\ (/\ codec.mode = MODE_ASCII
               /\ covered = <<1, 3, 0, 0, 0, 1>>)
              => /\ SubSeq(frame, 1, 5) = <<58, 48, 49, 48, 51>>
                 /\ SubSeq(frame, n - 3, n - 2) = <<70, 66>>
                 /\ SubSeq(frame, n - 1, n) = <<13, 10>>

\* the ASCII frame ':010300000001FB' CR LF has been made
ReferenceFrameEmbedded ==
    /\ codec # <<>> /\ codec.stage = "embedded"
    /\ codec.mode = MODE_ASCII
    /\ codec.subordinateaddress = 1 /\ codec.functioncode = 3
    /\ codec.payloaddata = ReferencePayload
    /\ codec.request.val = <<58, 48, 49, 48, 51, 48, 48, 48, 48, 48, 48, 48, 49,
                             70, 66, 13, 10>>

-----------------------------------------------------------------------------
(* Claims on the request of a call (SpecCall) *)

\* the call of s has made a request
HasRequest(s) == Calling(s) /\ wire[s].message # <<>>

\* the payload of the request of s
RequestPayload(s) == PayloadOf(inst[s].mode, wire[s].message)

\* the payload that C22 gives for the call c with function code fc, or <<>>
\* when the payload given is not this one
LaidOut(c, fc, payload) ==
    LET address == BigEndian16(c.registeraddress)
        one == <<0, 1>>
    IN  CASE fc \in {1, 2} -> payload = address \o one
          [] fc \in {3, 4} -> payload = address \o BigEndian16(NumberAsked(c))
          [] fc = 5 ->
               payload = address \o (IF c.value.num = 1 THEN <<255, 0>>
                                     ELSE <<0, 0>>)
          [] fc = 6 ->
               payload = address \o TwosComplement16(
                             ScaledInteger(c.value, c.numberOfDecimals))
          [] fc = 15 ->
               payload = address \o one \o <<1>>
                             \o (IF c.value.num = 1 THEN <<1>> ELSE <<0>>)
          [] fc = 16 ->
               /\ Len(payload) = 5 + 2 * NumberSent(c)
               /\ SubSeq(payload, 1, 4) = address \o BigEndian16(NumberSent(c))
               /\ payload[5] \in 0..255
               /\ SubSeq(payload, 6, Len(payload)) = RegisterData(GenericArgs(c)).val
          [] OTHER -> FALSE

\* C22: request payload per function code.  1 and 2 send the register
\* address (two bytes, big-endian) and the count 1; 3 and 4 the address and
\* the register count; 5 the address and FF00 for the value 1 or 0000 for 0;
\* 6 the address and the two bytes of the encoded value; 15 the address, the
\* count 1, the byte count 1 and one data byte, 01 or 00; 16 the address, the
\* register count, one byte of byte count and the encoded data, which is
\* exactly 2 * register count bytes long.
RequestPayloadLayout ==
    \A s \in InstIds :
        HasRequest(s) => LaidOut(call[s], SentFunctioncode(s), RequestPayload(s))

\* write_bit has sent, with function code 15, the address 289, the count 1,
\* the byte count 1 and the data byte 01
BitWrittenByFifteen ==
    /\ pc[1] = "read"
    /\ call[1].op = "write_bit"
    /\ SentFunctioncode(1) = 15
    /\ RequestPayload(1) = <<1, 33, 0, 1, 1, 1>>

-----------------------------------------------------------------------------
(* Claims on the minimum length of a response (SpecFrame) *)

\* the response given to _extractPayload was refused with the message
RefusedAs(msg) ==
    /\ codec.extracted.status = "raised"
    /\ codec.extracted.exc = "ValueError"
    /\ codec.extracted.msg = msg

TooShortRefused ==
    Extracted =>
        /\ (codec.mode = MODE_RTU /\ Len(codec.response) < 4)
           => RefusedAs("Too short Modbus RTU response")
        /\ (codec.mode = MODE_ASCII /\ Len(codec.response) < 9)
           => RefusedAs("Too short Modbus ASCII response")

\* an accepted ASCII response: ':', the hex of address, function code,
\* payload and LRC, CR LF
AcceptedAsciiFramed ==
    (Extracted /\ codec.mode = MODE_ASCII /\ codec.extracted.status = "returned")
    => /\ Len(codec.response) >= 9
       /\ codec.response[1] = 58
       /\ LastN(codec.response, 2) = <<13, 10>>
       /\ Len(codec.response) = 9 + 2 * Len(codec.extracted.val)

\* the statement of C23 as it is made: an accepted ASCII response has at
\* least one payload byte
AcceptedAsciiHasPayload ==
    /\ TooShortRefused
    /\ AcceptedAsciiFramed
    /\ (Extracted /\ codec.mode = MODE_ASCII
           /\ codec.extracted.status = "returned")
       => Len(codec.extracted.val) >= 1

\* C23: minimum frame length.  _extractPayload refuses every RTU response
\* shorter than 4 bytes and every ASCII response shorter than 9 characters;
\* every ASCII response that it accepts is the header, the hex of address,
\* function code, payload and checksum, and the footer, where the payload
\* may be empty: the shortest accepted ASCII response has 9 characters and
\* no payload byte.
MinimumFrameLength == TooShortRefused /\ AcceptedAsciiFramed

\* a well-framed ASCII response of 7 characters has been refused as too short
ShortAsciiRefused ==
    /\ Extracted
    /\ codec.mode = MODE_ASCII
    /\ codec.tamper = <<"shorten", 1, 0>>
    /\ Len(codec.response) = 7
    /\ RefusedAs("Too short Modbus ASCII response")

\* an ASCII response of 9 characters has been accepted: its payload is empty
NineCharactersAccepted ==
    /\ Extracted
    /\ codec.mode = MODE_ASCII
    /\ Len(codec.response) = 9
    /\ codec.extracted.status = "returned"
    /\ codec.extracted.val = <<>>

-----------------------------------------------------------------------------
(* Claims on the order of the checks of a response (SpecFrame) *)

\* the frame extracted was made with known faults
FaultsKnown ==
    Extracted /\ codec.tamper[1] \in {"none", "address", "functioncode", "forge"}

\* the address and the function code in the frame, and its other faults
ReceivedAddress ==
    IF codec.tamper[1] \in {"address", "forge"} THEN codec.tamper[2]
    ELSE codec.subordinateaddress

ReceivedFunctioncode ==
    IF codec.tamper[1] = "functioncode" THEN codec.tamper[2]
    ELSE IF codec.tamper[1] = "forge" THEN codec.tamper[3]
    ELSE codec.functioncode

ReceivedFaults == IF codec.tamper[1] = "forge" THEN codec.tamper[4] ELSE {}

\* the checks in the order of C24, each with the fault it finds and the
\* message of its error
ChecksInOrder ==
    << <<"short" \in ReceivedFaults,
         IF codec.mode = MODE_ASCII THEN "Too short Modbus ASCII response"
         ELSE "Too short Modbus RTU response">>,
       <<"header" \in ReceivedFaults, "Did not find header">>,
       <<"footer" \in ReceivedFaults, "Did not find footer">>,
       <<"odd" \in ReceivedFaults,
         "Stripped ASCII frames should have an even number of bytes">>,
       <<"checksum" \in ReceivedFaults, "Checksum error">>,
       <<ReceivedAddress # codec.subordinateaddress,
         "Wrong return subordinate address">>,
       <<ReceivedFunctioncode = codec.functioncode + 128,
         "The subordinate is indicating an error">>,
       <<ReceivedFunctioncode # codec.functioncode, "Wrong functioncode">> >>

\* C24: validation order in extract.  _extractPayload makes its checks in the
\* order minimum length, ASCII header, ASCII footer, even stripped length,
\* checksum, address, device-exception function code, function code, and the
\* first check that fails gives the error: a frame with a bad checksum and a
\* wrong address gives the checksum error, a frame with a wrong address and
\* the high bit in the function code gives the address error.  A frame that
\* fails no check is accepted.
ValidationOrder ==
    FaultsKnown =>
        LET failing == {i \in 1..Len(ChecksInOrder) : ChecksInOrder[i][1]}
        IN  IF failing = {} THEN codec.extracted.status = "returned"
            ELSE /\ codec.extracted.status = "raised"
                 /\ codec.extracted.exc = "ValueError"
                 /\ codec.extracted.msg =
                        ChecksInOrder[CHOOSE i \in failing :
                                          \A j \in failing : i <= j][2]

\* a frame with a bad checksum from a wrong address has given the checksum
\* error
ChecksumBeforeAddress ==
    /\ FaultsKnown
    /\ ReceivedFaults = {"checksum"}
    /\ ReceivedAddress # codec.subordinateaddress
    /\ codec.extracted.msg = "Checksum error"

-----------------------------------------------------------------------------
(* Claims on the response of a read (SpecCall) *)

\* the call of s is a read that has returned a value
ReadReturned(s) ==
    Done(s) /\ call[s].op \in ReadOps /\ result[s].status = "returned"

\* the response payload read by s is a byte count and that many data bytes,
\* one for function codes 1 and 2, two for each register for 3 and 4
ByteCountMatches(s) ==
    LET payload == PayloadOf(inst[s].mode, wire[s].answer)
        fc == SentFunctioncode(s)
    IN  /\ fc \in {1, 2, 3, 4}
        /\ Len(payload) >= 1
        /\ payload[1] = Len(payload) - 1
        /\ fc \in {1, 2} => Len(payload) - 1 = 1
        /\ fc \in {3, 4} => Len(payload) - 1 = 2 * NumberAsked(call[s])

\* C25: read response structure.  A response to function code 1, 2, 3 or 4
\* is accepted only if its byte-count byte equals the number of bytes that
\* follow and the data is one byte (1, 2) or 2 * numberOfRegisters bytes
\* (3, 4).  For 1 and 2 the data byte must be 00 or 01, anything else raises:
\* read_bit returns only 0 or 1, the value of that byte.
ReadResponseStructure ==
    \A s \in InstIds :
        ReadReturned(s)
        => /\ GotFrame(s)
           /\ GoodChecksum(inst[s].mode, wire[s].answer)
           /\ ByteCountMatches(s)
           /\ call[s].op = "read_bit"
              => LET payload == PayloadOf(inst[s].mode, wire[s].answer)
                 IN  /\ payload[2] \in {0, 1}
                     /\ result[s].val = <<payload[2]>>

\* read_bit has read a response with the byte count 1 and the data byte 02,
\* and has raised
BitOfTwoRaised ==
    /\ GotFrame(1)
    /\ call[1].op = "read_bit"
    /\ GoodChecksum(inst[1].mode, wire[1].answer)
    /\ PayloadOf(inst[1].mode, wire[1].answer) = <<1, 2>>
    /\ result[1].status = "raised"
    /\ result[1].msg = "Could not convert bit response to a value"

-----------------------------------------------------------------------------
(* Claims on the number of bytes to read (SpecCall) *)

\* the number of bytes in the payload of the response that the request of s
\* expects: 4 for a write, the byte count and 2 bytes for each register for
\* a read of registers, the byte count and one byte for every 8 bits for a
\* read of bits
ExpectedPayloadSize(s) ==
    LET fc == SentFunctioncode(s)
        count == FromBigEndian(SubSeq(RequestPayload(s), 3, 4))
    IN  IF fc \in {5, 6, 15, 16} THEN 4
        ELSE IF fc \in {3, 4} THEN 1 + 2 * count
        ELSE 1 + (count + 7) \div 8

\* C26: predicted response size.  For every request that a session builds
\* (function codes 1, 2, 3, 4, 5, 6, 15, 16) the size that
\* _predictResponseSize gives is the length of the well-formed response
\* frame: the response payload + 4 in RTU mode, 2 * the response payload + 9
\* in ASCII mode, the length of _embedPayload(address, mode, functioncode,
\* expected response payload).  With precalculate_read_size set this is the
\* number of bytes to read; without it (or when the prediction raises) the
\* number is 1000.
PredictedResponseSize ==
    \A s \in InstIds :
        HasRequest(s)
        => LET g == GenericArgs(call[s])
               mode == inst[s].mode
               predicted == _predictResponseSize(mode, SentFunctioncode(s),
                                                 RequestPayload(s))
               size == ExpectedPayloadSize(s)
               wellformed == FrameOf(mode, <<inst[s].address, g.functioncode>>
                                              \o GoodPayload(g, RequestPayload(s)))
           IN  /\ SentFunctioncode(s) \in {1, 2, 3, 4, 5, 6, 15, 16}
               /\ predicted.ok
               /\ predicted.val[1] = (IF mode = MODE_ASCII THEN 2 * size + 9
                                      ELSE size + 4)
               /\ predicted.val[1] = Len(wellformed)
               /\ wire[s].number_of_bytes_to_read =
                      (IF inst[s].precalculate_read_size THEN predicted.val[1]
                       ELSE DEFAULT_NUMBER_OF_BYTES_TO_READ)

\* with precalculate_read_size set, a read of two registers in RTU mode has
\* asked for 9 bytes, has read 9 bytes and has returned
PredictedSizeRead ==
    /\ Done(1) /\ HasRequest(1)
    /\ inst[1].precalculate_read_size
    /\ inst[1].mode = MODE_RTU
    /\ SentFunctioncode(1) = 3
    /\ NumberAsked(call[1]) = 2
    /\ wire[1].number_of_bytes_to_read = 9
    /\ Len(wire[1].answer) = 9
    /\ result[1].status = "returned"

-----------------------------------------------------------------------------
(* Claims on the opening and closing of the port (Spec) *)

\* session s closes the port after each call
ClosesAfterEachCall(s) ==
    inst[s].constructed /\ inst[s].close_port_after_each_call

\* the connection of session s is open
PortOpen(s) == conns[inst[s].serial].is_open

\* C27: close-after-each-call lifecycle.  When a session has
\* close_port_after_each_call set, its port is closed after the construction,
\* is opened at the start of each exchange and is closed again when the
\* operation has ended, whether it succeeds or fails (timeout, invalid
\* response, failure of the write or the read of the transport): no call is
\* running => the port is closed, the operation has ended => the port is
\* closed, the exchange starts with the port closed, and serial.open() never
\* meets a port that is open already.
CloseAfterEachCallLifecycle ==
    \A s \in InstIds :
        ClosesAfterEachCall(s)
        => /\ AllIdle => ~PortOpen(s)
           /\ pc[s] \in {"open", "done"} => ~PortOpen(s)
           /\ pc[s] \in {"write", "read"} => (PortOpen(s) /\ io[s].opens = 1)
           /\ result[s].msg # "Port is already open."


\* session s invokes serial.write in this step
InvokesWrite(s) == io'[s].writes = io[s].writes + 1

\* C28: transport writes happen only on an open port.  In every sequence of
\* constructions, changes of close_port_after_each_call and operations of
\* the sessions of one port, the shared connection is open whenever a session
\* invokes serial.write.
WritesOnOpenPort ==
    [][\A s \in InstIds : InvokesWrite(s) => PortOpen(s)]_vars

-----------------------------------------------------------------------------
(* Claims on 128 to 255 registers (SpecCall) *)

\* the call c is for 128 to 255 registers and its other arguments are good
ManyRegisters(self, c) ==
    /\ c.op \in {"read_string", "write_string", "read_registers", "write_registers"}
    /\ ~BadArguments(self, c)
    /\ (IF c.op \in WriteOps THEN NumberSent(c) ELSE NumberAsked(c)) \in 128..255

\* C29: every request with function code 16 that reaches the wire has a byte
\* count of one byte that is 2 * the register count and the number of data
\* bytes that follow.  A write of 128 to 255 registers passes the check of
\* 'at most 255 registers' and is refused before anything is transmitted,
\* because its byte count does not fit in one byte.
ByteCountOfSixteen ==
    \A s \in InstIds :
        /\ (HasRequest(s) /\ SentFunctioncode(s) = 16)
           => LET payload == RequestPayload(s)
                  count == FromBigEndian(SubSeq(payload, 3, 4))
              IN  /\ Len(payload) >= 5
                  /\ payload[5] \in 0..255
                  /\ payload[5] = 2 * count
                  /\ payload[5] = Len(payload) - 5
        /\ (Done(s) /\ call[s].op \in WriteOps /\ ManyRegisters(inst[s], call[s]))
           => /\ ~HasRequest(s)
              /\ NoTransport(s)
              /\ result[s].status = "raised"
              /\ result[s].exc = "ValueError"
              /\ result[s].msg = "inputvalue is too large"

\* write_string for 128 registers has been refused for its byte count, with
\* nothing transmitted
LargeWriteRefused ==
    /\ Done(1)
    /\ call[1].op = "write_string"
    /\ call[1].numberOfRegisters = 128
    /\ ManyRegisters(inst[1], call[1])
    /\ NoTransport(1)
    /\ result[1].msg = "inputvalue is too large"

\* C30: a read of registers (function code 3 or 4, read_registers or
\* read_string) for 128 to 255 registers passes the checks of its arguments
\* and is transmitted, and never returns a value: the byte count of one byte
\* and the data length of 2 * numberOfRegisters cannot both be right, so the
\* call ends in an error after the use of the transport.
LargeReadNeverReturns ==
    \A s \in InstIds :
        (Calling(s) /\ call[s].op \in ReadOps /\ ManyRegisters(inst[s], call[s]))
        => /\ HasRequest(s)
           /\ SentFunctioncode(s) \in {3, 4}
           /\ FromBigEndian(SubSeq(RequestPayload(s), 3, 4))
                 = call[s].numberOfRegisters
           /\ pc[s] = "answer" => io[s].writes = 1
           /\ Done(s) => (result[s].status = "raised" /\ ~NoTransport(s))

\* read_registers for 128 registers has read an RTU response of 256 data
\* bytes whose byte count, 0, is the low byte of 256, and has raised after
\* the checksum was found good
LargeReadRaised ==
    /\ GotFrame(1)
    /\ call[1].op = "read_registers"
    /\ call[1].numberOfRegisters = 128
    /\ inst[1].mode = MODE_RTU
    /\ Len(wire[1].answer) = 261
    /\ wire[1].answer[3] = 0
    /\ result[1].status = "raised"
    /\ result[1].msg = "Wrong given number of bytes in the response"

====
